---- MODULE Spec2Model ----
(***************************************************************************)
(* A model of the ast-index commands and parsers:                          *)
(*   - commands/analysis.rs  cmd_unused_symbols   (specification Spec)     *)
(* Text is modelled as sequences of one-character strings, so that SQL     *)
(* LIKE / GLOB, path comparison and the regular expressions of the         *)
(* extractors are computed character by character.                         *)
(***************************************************************************)
EXTENDS Integers, Sequences, FiniteSets, TLC

VARIABLES
    \* ---- commands/analysis.rs: cmd_unused_symbols ----
    tbl_symbols,        \* rows of symbols JOIN files: [name, kind, line, path]
    tbl_refs,           \* rows of refs: [name, line]
    tbl_xml,            \* rows of xml_usages: [class_name, line]
    tbl_sb,             \* rows of storyboard_usages: [class_name, line]
    args,               \* [module, export_only, limit, format]
    a_pc,               \* position in cmd_unused_symbols
    symbols,            \* the Vec `symbols` (the candidates, in query order)
    a_i,                \* index of the next candidate of `for sym in &symbols`
    unused,             \* the Vec `unused`
    probe,              \* what the last loop iteration did: <<>> or <<record>>
    stdout,             \* what was printed on stdout, in order
    a_result,           \* "none" | "Ok" | "Err": the Result of cmd_unused_symbols
    \* ---- commands/watch.rs: cmd_watch ----
    root,               \* the watched root, an absolute path (its components)
    w_pc,               \* "start" | "recv" | "open" | "run" | "done"
    chan,               \* the mpsc channel: messages sent and not yet received
    tx_state,           \* the debouncer's Sender: "none" (not created yet) |
                        \* "alive" | "closed" | "failed"
    sent,               \* messages the debouncer has sent so far
    taken,              \* messages rx.recv() has returned so far
    cur,                \* the message being handled (None before the first)
    calls,              \* calls of update_index made for `cur`
    conns,              \* store connections the watcher holds open
    last_log,           \* the last line cmd_watch wrote to stderr
    hist,               \* [failed, recovered]: an error was logged / an update
                        \* succeeded after one
    w_result,           \* "none" | "Ok" | "Err": the Result of cmd_watch
    \* ---- the index store and the incremental update (update_index) ----
    disk,               \* file -> its content (0: not on disk)
    db,                 \* the committed store: file -> [file, symbols, parents, refs]
    tx,                 \* None, or Some(the open transaction's view of the store)
    s_pc,               \* position in update_index and the per-file upsert
    walk,               \* files the traversal has still to visit
    s_cur,              \* None or Some([file, content]): the upsert under way
    counts,             \* [updated, changed, deleted] of the pass
    pre,                \* None or Some(db as it was when the last upsert began)
    last_up,            \* None or Some([file, content, outcome, at])
    pass,               \* [clean, edited, touched]: the tree was fully indexed
                        \* when the pass began / was edited during it / a row
                        \* of the store was modified by it
    s_ret,              \* None, or Some of what update_index returned:
                        \* [ok |-> FALSE], or [ok |-> TRUE, incremental, update_index]
    \* ---- parsers/mod.rs: extract_references ----
    content,            \* the file content, a sequence of characters
    defined_names,      \* names of the symbols defined in the file
    r_pc,               \* "lines" | "done"
    line_num,           \* number of the line the loop handles next (1-based)
    refs,               \* the Vec `refs` of ParsedRef [name, line, context]
    \* ---- parsers/kotlin.rs: parse_kotlin_symbols ----
    k_decl,             \* the declaration the content was written from
    k_content,          \* the file content, a sequence of characters
    k_lines,            \* the Vec `lines`
    k_pc,               \* "start" | "loop" | "done"
    k_n,                \* line_num of the line the loop handles next
    k_symbols,          \* the Vec `symbols` of ParsedSymbol
    \* ---- parsers/objc.rs: parse_objc_symbols ----
    o_content,          \* the file content, a sequence of characters
    o_pc,               \* "loop" | "done"
    o_n,                \* line_num of the line the loop handles next
    o_symbols,          \* the Vec `symbols` of ParsedSymbol
    \* ---- parsers/perl.rs: parse_perl_symbols ----
    p_content,          \* the file content, a sequence of characters
    p_pc,               \* "loop" | "done"
    p_n,                \* line_num of the line the loop handles next
    p_symbols,          \* the Vec `symbols` of ParsedSymbol
    current_package,    \* None or Some(<<name, index into symbols (0-based)>>)
    pending_parents,    \* the Vec `pending_parents` of <<name, kind>>
    \* ---- parsers/mod.rs: parse_symbols_and_refs ----
    d_flags,            \* the dialect flags of the call: flag name -> BOOLEAN
    d_pc,               \* "symbols" | "refs" | "done"
    d_called,           \* the functions called so far, in order
    d_result            \* "none" | "Ok" | "Err"

a_vars == <<tbl_symbols, tbl_refs, tbl_xml, tbl_sb, args, a_pc, symbols, a_i,
            unused, probe, stdout, a_result>>

w_vars == <<root, w_pc, chan, tx_state, sent, taken, cur, calls, conns,
            last_log, hist, w_result>>

s_vars == <<disk, db, tx, s_pc, walk, s_cur, counts, pre, last_up, pass, s_ret>>

r_vars == <<content, defined_names, r_pc, line_num, refs>>

k_vars == <<k_decl, k_content, k_lines, k_pc, k_n, k_symbols>>

o_vars == <<o_content, o_pc, o_n, o_symbols>>

p_vars == <<p_content, p_pc, p_n, p_symbols, current_package, pending_parents>>

d_vars == <<d_flags, d_pc, d_called, d_result>>

vars == <<a_vars, w_vars, s_vars, r_vars, k_vars, o_vars, p_vars, d_vars>>

-----------------------------------------------------------------------------
(* Bounds of the model. *)

MaxSyms == 2
MaxLimit == 2
MaxEvents == 2      \* events in one debounced batch
MaxQueue == 2       \* messages waiting in the channel
MaxSent == 2        \* messages the debouncer sends in one run
MaxContent == 3     \* distinct contents a file may have
MaxTokens == 3      \* tokens a file content is built from
Slack == 2          \* how far line lengths go around the two thresholds
MaxOver == 2        \* how far class headers go around HEADER_LINES lines
MaxObjcLines == 2   \* lines of an Objective-C file
MaxPerlLines == 3   \* lines of a Perl file
MaxFlags == 2       \* dialect flags set in one call of parse_symbols_and_refs

-----------------------------------------------------------------------------
(* Characters and text. *)

UPPER == {"A","B","C","D","E","F","G","H","I","J","K","L","M",
          "N","O","P","Q","R","S","T","U","V","W","X","Y","Z"}
LOWER == {"a","b","c","d","e","f","g","h","i","j","k","l","m",
          "n","o","p","q","r","s","t","u","v","w","x","y","z"}
DIGIT == {"0","1","2","3","4","5","6","7","8","9"}

None == <<>>
Some(x) == <<x>>

\* ASCII lower-casing, as SQLite's LIKE folds case for ASCII letters only.
Lower(c) ==
    CASE c = "A" -> "a" [] c = "B" -> "b" [] c = "C" -> "c" [] c = "D" -> "d"
      [] c = "E" -> "e" [] c = "F" -> "f" [] c = "G" -> "g" [] c = "H" -> "h"
      [] c = "I" -> "i" [] c = "J" -> "j" [] c = "K" -> "k" [] c = "L" -> "l"
      [] c = "M" -> "m" [] c = "N" -> "n" [] c = "O" -> "o" [] c = "P" -> "p"
      [] c = "Q" -> "q" [] c = "R" -> "r" [] c = "S" -> "s" [] c = "T" -> "t"
      [] c = "U" -> "u" [] c = "V" -> "v" [] c = "W" -> "w" [] c = "X" -> "x"
      [] c = "Y" -> "y" [] c = "Z" -> "z" [] OTHER -> c

\* Byte values of the characters file paths are built from (BINARY collation).
Byte(c) ==
    CASE c = "%" -> 37 [] c = "/" -> 47 [] c = "A" -> 65 [] c = "B" -> 66
      [] c = "_" -> 95 [] c = "a" -> 97 [] c = "b" -> 98 [] OTHER -> 120

RECURSIVE BytesLess(_, _)
BytesLess(p, q) ==
    IF q = <<>> THEN FALSE
    ELSE IF p = <<>> THEN TRUE
    ELSE IF Byte(Head(p)) # Byte(Head(q)) THEN Byte(Head(p)) < Byte(Head(q))
    ELSE BytesLess(Tail(p), Tail(q))

\* SQLite's LIKE: % matches any run, _ any one character, letters fold case.
RECURSIVE Like(_, _)
Like(pat, s) ==
    IF pat = <<>> THEN s = <<>>
    ELSE IF Head(pat) = "%"
         THEN \E k \in 0..Len(s) : Like(Tail(pat), SubSeq(s, k + 1, Len(s)))
    ELSE IF s = <<>> THEN FALSE
    ELSE IF Head(pat) = "_" THEN Like(Tail(pat), Tail(s))
    ELSE Lower(Head(pat)) = Lower(Head(s)) /\ Like(Tail(pat), Tail(s))

\* SQLite's GLOB '[A-Z]*': a first character in A..Z, then anything.
GlobUpperStar(s) == s # <<>> /\ Head(s) \in UPPER

SeqRange(s) == {s[k] : k \in 1..Len(s)}

-----------------------------------------------------------------------------
(* commands/analysis.rs *)

CandidateKinds ==
    {"class", "interface", "function", "object", "enum", "protocol", "struct"}

\* The rows the index may hold (the inputs of the analysis).
SymbolRows ==
    { [name |-> <<"A">>, kind |-> "class",    line |-> 1, path |-> <<"a","b">>],
      [name |-> <<"b">>, kind |-> "function", line |-> 2, path |-> <<"a","b">>],
      [name |-> <<"A">>, kind |-> "enum",     line |-> 1, path |-> <<"a","b">>],
      [name |-> <<"B">>, kind |-> "property", line |-> 1, path |-> <<"a","B">>],
      [name |-> <<"B">>, kind |-> "object",   line |-> 3, path |-> <<"a","B">>],
      [name |-> <<"b">>, kind |-> "struct",   line |-> 1, path |-> <<"a","_">>] }
RefRows == { [name |-> <<"A">>, line |-> 1], [name |-> <<"b">>, line |-> 1] }
XmlRows == { [class_name |-> <<"A">>, line |-> 1] }
SbRows  == { [class_name |-> <<"B">>, line |-> 1] }
Modules == { None, Some(<<"a","b">>), Some(<<"a","_">>) }

\* ORDER BY f.path, s.line
RowBeforeByLine(r, s) == r.line < s.line
RowBefore(r, s) ==
    \/ BytesLess(r.path, s.path)
    \/ r.path = s.path /\ r.line < s.line

\* The WHERE clause of the query cmd_unused_symbols builds.
Selected(r, module, export_only) ==
    /\ r.kind \in CandidateKinds
    /\ IF module # None THEN Like(module[1] \o <<"%">>, r.path)
       ELSE IF export_only THEN GlobUpperStar(r.name)
       ELSE TRUE

\* The result sets the query may return: the selected rows in (path, line)
\* order, rows that tie in any order.
QueryResults(rows, module, export_only) ==
    LET sel == {r \in rows : Selected(r, module, export_only)}
        n   == Cardinality(sel)
    IN  {s \in [1..n -> sel] :
            /\ \A i, j \in 1..n : i # j => s[i] # s[j]
            /\ \A i, j \in 1..n : i < j => ~RowBefore(s[j], s[i])}

\* SELECT COUNT(*) FROM refs WHERE name = ?1
RefCount(name) == Cardinality({r \in tbl_refs : r.name = name})
XmlCount(name) == Cardinality({r \in tbl_xml : r.class_name = name})

\* (the failure ignored: the count as if the query had succeeded)
UnwrapKeepsCount(failed, count) == count

\* query_row(...).unwrap_or(0): the count, or 0 when the query failed.
UnwrapOr0(failed, count) == IF failed THEN 0 ELSE count

\* (a copy of the xml_usages probe left unedited)
SbCountProbesXml(name) == Cardinality({r \in tbl_xml : r.class_name = name})
\* SELECT COUNT(*) FROM storyboard_usages WHERE class_name = ?1
SbCount(name) == Cardinality({r \in tbl_sb : r.class_name = name})

\* `unused.len() >= limit` after a push: the loop's break condition.
LimitReached(len, limit) == len >= limit

UnusedIdle ==
    /\ tbl_symbols = {} /\ tbl_refs = {} /\ tbl_xml = {} /\ tbl_sb = {}
    /\ args = [module |-> None, export_only |-> FALSE, limit |-> 0,
               format |-> "text"]
    /\ a_pc = "idle" /\ symbols = <<>> /\ a_i = 1 /\ unused = <<>>
    /\ probe = None /\ stdout = <<>> /\ a_result = "none"

UnusedInit ==
    /\ tbl_symbols \in {S \in SUBSET SymbolRows : Cardinality(S) <= MaxSyms}
    /\ tbl_refs \in SUBSET RefRows
    /\ tbl_xml \in SUBSET XmlRows
    /\ tbl_sb \in SUBSET SbRows
    /\ args \in [module : Modules, export_only : BOOLEAN,
                 limit : 0..MaxLimit, format : {"text", "json"}]
    /\ a_pc = "start"
    /\ symbols = <<>>
    /\ a_i = 1
    /\ unused = <<>>
    /\ probe = None
    /\ stdout = <<>>
    /\ a_result = "none"

\* db_exists is false: the "rebuild first" message, and Ok(()).
UnusedNoIndex ==
    /\ a_pc = "start"
    /\ stdout' = Append(stdout, [kind |-> "message"])
    /\ a_result' = "Ok"
    /\ a_pc' = "done"
    /\ UNCHANGED <<tbl_symbols, tbl_refs, tbl_xml, tbl_sb, args, symbols, a_i,
                   unused, probe>>
    /\ UNCHANGED <<w_vars, s_vars, r_vars, k_vars, o_vars, p_vars, d_vars>>

\* db::open_db(root)?, conn.prepare(sql)? or the query itself fails.
UnusedStoreError ==
    /\ a_pc = "start"
    /\ a_result' = "Err"
    /\ a_pc' = "done"
    /\ UNCHANGED <<tbl_symbols, tbl_refs, tbl_xml, tbl_sb, args, symbols, a_i,
                   unused, probe, stdout>>
    /\ UNCHANGED <<w_vars, s_vars, r_vars, k_vars, o_vars, p_vars, d_vars>>

\* The candidate query.
UnusedSelect ==
    /\ a_pc = "start"
    /\ \E s \in QueryResults(tbl_symbols, args.module, args.export_only) :
          /\ symbols' = s
          /\ a_pc' = IF Len(s) = 0 THEN "output" ELSE "loop"
    /\ a_i' = 1
    /\ unused' = <<>>
    /\ UNCHANGED <<tbl_symbols, tbl_refs, tbl_xml, tbl_sb, args, probe, stdout,
                   a_result>>
    /\ UNCHANGED <<w_vars, s_vars, r_vars, k_vars, o_vars, p_vars, d_vars>>

\* One iteration of `for sym in &symbols`: the three probes, each of which
\* may fail with a store error, the push and the break.
UnusedProbe ==
    /\ a_pc = "loop"
    /\ a_i <= Len(symbols)
    /\ \E rf, xf, sf \in BOOLEAN :
        LET sym       == symbols[a_i]
            ref_count == UnwrapOr0(rf, RefCount(sym.name))
            xml_count == UnwrapOr0(xf, XmlCount(sym.name))
            sb_count  == UnwrapOr0(sf, SbCount(sym.name))
            xml_run   == ~(ref_count > 0)
            sb_run    == xml_run /\ ~(xml_count > 0)
            push      == sb_run /\ ~(sb_count > 0)
            pushed    == IF push THEN Append(unused, sym) ELSE unused
            brk       == push /\ LimitReached(Len(pushed), args.limit)
        IN  /\ ~xml_run => ~xf
            /\ ~sb_run => ~sf
            /\ probe' = Some([sym |-> sym,
                              ref |-> IF rf THEN "err" ELSE "ok",
                              xml |-> IF ~xml_run THEN "skip"
                                      ELSE IF xf THEN "err" ELSE "ok",
                              sb  |-> IF ~sb_run THEN "skip"
                                      ELSE IF sf THEN "err" ELSE "ok"])
            /\ unused' = pushed
            /\ a_i' = a_i + 1
            /\ a_pc' = IF brk \/ a_i = Len(symbols) THEN "output" ELSE "loop"
    /\ UNCHANGED <<tbl_symbols, tbl_refs, tbl_xml, tbl_sb, args, symbols,
                   stdout, a_result>>
    /\ UNCHANGED <<w_vars, s_vars, r_vars, k_vars, o_vars, p_vars, d_vars>>

\* The text report: the header, one line per symbol, the "none found" note.
TextReport ==
    <<[kind |-> "header", unused |-> Len(unused), checked |-> Len(symbols)]>>
    \o [k \in 1..Len(unused) |-> [kind |-> "line", sym |-> unused[k]]]
    \o (IF unused = <<>> THEN <<[kind |-> "note"]>> ELSE <<>>)

UnusedOutput ==
    /\ a_pc = "output"
    /\ stdout' = IF args.format = "json"
                 THEN Append(stdout, [kind |-> "json", payload |-> unused])
                 ELSE stdout \o TextReport
    /\ a_result' = "Ok"
    /\ a_pc' = "done"
    /\ UNCHANGED <<tbl_symbols, tbl_refs, tbl_xml, tbl_sb, args, symbols, a_i,
                   unused, probe>>
    /\ UNCHANGED <<w_vars, s_vars, r_vars, k_vars, o_vars, p_vars, d_vars>>

cmd_unused_symbols ==
    \/ UnusedNoIndex
    \/ UnusedStoreError
    \/ UnusedSelect
    \/ UnusedProbe
    \/ UnusedOutput

-----------------------------------------------------------------------------
(* parsers/mod.rs: is_supported_extension *)

is_supported_extension(ext) ==
    ext \in {"kt", "java", "swift", "m", "h",
             "ts", "tsx", "js", "jsx", "mjs", "cjs", "vue", "svelte",
             "pm", "pl", "t", "proto", "wsdl", "xsd",
             "cpp", "cc", "c", "hpp", "py", "go", "rs", "rb", "cs", "dart"}

-----------------------------------------------------------------------------
(* commands/watch.rs *)

\* A path is the sequence of its components; a component is the sequence of
\* the parts its name splits into at each '.': "a.kt" is <<"a","kt">>, ".git"
\* is <<"","git">>, "build" is <<"build">>.

\* Path::extension of the last component: None without a '.', None for a
\* name whose only '.' is its first character, else what follows the last '.'.
Extension(path) ==
    IF path = <<>> THEN None
    ELSE LET name == path[Len(path)]
         IN  IF Len(name) < 2 THEN None
             ELSE IF Len(name) = 2 /\ name[1] = "" THEN None
             ELSE Some(name[Len(name)])

ExcludedLackingBuild(s) ==
    s \in { <<"node_modules">>, <<"", "gradle">>, <<"", "git">>, <<"target">>,
            <<"", "idea">>, <<"__pycache__">>, <<"", "dart_tool">> }

\* matches!(s, "build" | "node_modules" | ".gradle" | ".git" | "target"
\*             | ".idea" | "__pycache__" | ".dart_tool")
Excluded(s) ==
    s \in { <<"build">>, <<"node_modules">>, <<"", "gradle">>, <<"", "git">>,
            <<"target">>, <<"", "idea">>, <<"__pycache__">>,
            <<"", "dart_tool">> }

\* The closure given to events.iter().filter(..).
EventFilter(path) ==
    LET ext == Extension(path)
    IN  IF ext = None THEN FALSE
        ELSE IF ~is_supported_extension(ext[1]) THEN FALSE
        ELSE ~(\E k \in 1..Len(path) : Excluded(path[k]))

\* let changed: Vec<_> = events.iter().filter(..).collect()
RECURSIVE Changed(_)
Changed(events) ==
    IF events = <<>> THEN <<>>
    ELSE (IF EventFilter(Head(events)) THEN <<Head(events)>> ELSE <<>>)
         \o Changed(Tail(events))

\* What rx.recv() returns: the oldest message, or Err once the channel is
\* empty and its Sender is gone; it blocks (None) otherwise.
RecvNonBlocking(q, sender) ==
    IF q # <<>> THEN Some([ok |-> TRUE, val |-> Head(q), rest |-> Tail(q)])
    ELSE Some([ok |-> FALSE])

Recv(q, sender) ==
    IF q # <<>> THEN Some([ok |-> TRUE, val |-> Head(q), rest |-> Tail(q)])
    ELSE IF sender # "alive" THEN Some([ok |-> FALSE])
    ELSE None

\* `conn` is a local of update_index: dropped, and so closed, on return.
ConnsAfterReturnLeaked(n) == n
ConnsAfterReturn(n) == n - 1

\* Paths below the root that events are delivered for.
RelPaths ==
    { << <<"src">>, <<"target", "rs">> >>,
      << <<"src">>, <<"a", "txt">> >>,
      << <<"", "gitignore">> >> }
Roots == { << <<"home">>, <<"proj">> >>, << <<"home">>, <<"build">>, <<"proj">> >> }

SeqsUpTo(S, n) == UNION {[1..k -> S] : k \in 1..n}

WatchIdle ==
    /\ root = <<>> /\ w_pc = "idle" /\ chan = <<>> /\ tx_state = "none"
    /\ sent = 0 /\ taken = 0 /\ cur = None /\ calls = 0 /\ conns = 0
    /\ last_log = "none" /\ hist = [failed |-> FALSE, recovered |-> FALSE]
    /\ w_result = "none"

WatchInit ==
    /\ root \in Roots
    /\ w_pc = "start"
    /\ chan = <<>>
    /\ tx_state = "none"
    /\ sent = 0 /\ taken = 0 /\ cur = None /\ calls = 0 /\ conns = 0
    /\ last_log = "none"
    /\ hist = [failed |-> FALSE, recovered |-> FALSE]
    /\ w_result = "none"

\* db_exists is false: the message on stdout, and Ok(()).
WatchNoIndex ==
    /\ w_pc = "start"
    /\ w_pc' = "done"
    /\ w_result' = "Ok"
    /\ UNCHANGED <<root, chan, tx_state, sent, taken, cur, calls, conns,
                   last_log, hist>>
    /\ UNCHANGED <<a_vars, s_vars, r_vars, k_vars, o_vars, p_vars, d_vars>>

\* new_debouncer(..)? or watcher().watch(..)? fails: the error is returned.
WatchSetupError ==
    /\ w_pc = "start"
    /\ w_pc' = "done"
    /\ w_result' = "Err"
    /\ UNCHANGED <<root, chan, tx_state, sent, taken, cur, calls, conns,
                   last_log, hist>>
    /\ UNCHANGED <<a_vars, s_vars, r_vars, k_vars, o_vars, p_vars, d_vars>>

\* The channel and the debouncer are created and the loop is entered.
WatchStart ==
    /\ w_pc = "start"
    /\ w_pc' = "recv"
    /\ tx_state' = "alive"
    /\ UNCHANGED <<root, chan, sent, taken, cur, calls, conns, last_log, hist,
                   w_result>>
    /\ UNCHANGED <<a_vars, s_vars, r_vars, k_vars, o_vars, p_vars, d_vars>>

InLoop == w_pc \in {"recv", "open", "run"}

\* The debouncer thread delivers a batch of events for paths under the root.
DebouncerSend ==
    /\ InLoop /\ tx_state = "alive"
    /\ sent < MaxSent /\ Len(chan) < MaxQueue
    /\ \E rel \in SeqsUpTo(RelPaths, MaxEvents) :
          chan' = Append(chan, [id |-> sent + 1, kind |-> "events",
                                events |-> [k \in 1..Len(rel) |-> root \o rel[k]]])
    /\ sent' = sent + 1
    /\ UNCHANGED <<root, w_pc, tx_state, taken, cur, calls, conns, last_log,
                   hist, w_result>>
    /\ UNCHANGED <<a_vars, s_vars, r_vars, k_vars, o_vars, p_vars, d_vars>>

\* The debouncer thread delivers a watcher error.
DebouncerError ==
    /\ InLoop /\ tx_state = "alive"
    /\ sent < MaxSent /\ Len(chan) < MaxQueue
    /\ chan' = Append(chan, [id |-> sent + 1, kind |-> "error", events |-> <<>>])
    /\ sent' = sent + 1
    /\ UNCHANGED <<root, w_pc, tx_state, taken, cur, calls, conns, last_log,
                   hist, w_result>>
    /\ UNCHANGED <<a_vars, s_vars, r_vars, k_vars, o_vars, p_vars, d_vars>>

\* The debouncer's Sender goes away: shut down, or its thread died.
DebouncerGone ==
    /\ InLoop /\ tx_state = "alive"
    /\ tx_state' \in {"closed", "failed"}
    /\ UNCHANGED <<root, w_pc, chan, sent, taken, cur, calls, conns, last_log,
                   hist, w_result>>
    /\ UNCHANGED <<a_vars, s_vars, r_vars, k_vars, o_vars, p_vars, d_vars>>

\* match rx.recv(): Ok(Ok(events)) with the filter and the call of
\* update_index, Ok(Err(err)), and Err(e) with the break and the final Ok(()).
WatchRecv ==
    /\ w_pc = "recv"
    /\ Recv(chan, tx_state) # None
    /\ LET r == Recv(chan, tx_state)[1]
       IN  IF ~r.ok
           THEN /\ last_log' = "channel_error"
                /\ w_pc' = "done"
                /\ w_result' = "Ok"
                /\ UNCHANGED <<chan, taken, cur, calls, hist>>
           ELSE /\ chan' = r.rest
                /\ taken' = taken + 1
                /\ cur' = Some(r.val)
                /\ w_result' = w_result
                /\ IF r.val.kind = "error"
                   THEN /\ last_log' = "watch_error"
                        /\ hist' = [hist EXCEPT !.failed = TRUE]
                        /\ calls' = 0
                        /\ w_pc' = "recv"
                   ELSE IF Changed(r.val.events) = <<>>
                   THEN /\ calls' = 0
                        /\ w_pc' = "recv"
                        /\ UNCHANGED <<last_log, hist>>
                   ELSE /\ last_log' = "detected"
                        /\ calls' = 1
                        /\ w_pc' = "open"
                        /\ hist' = hist
    /\ UNCHANGED <<root, tx_state, sent, conns>>
    /\ UNCHANGED <<a_vars, s_vars, r_vars, k_vars, o_vars, p_vars, d_vars>>

\* update_index: db::open_db(root)? succeeds.
UpdateOpen ==
    /\ w_pc = "open"
    /\ conns' = conns + 1
    /\ w_pc' = "run"
    /\ UNCHANGED <<root, chan, tx_state, sent, taken, cur, calls, last_log,
                   hist, w_result>>
    /\ UNCHANGED <<a_vars, s_vars, r_vars, k_vars, o_vars, p_vars, d_vars>>

\* update_index: db::open_db(root)? fails; cmd_watch logs "Update error".
UpdateOpenFails ==
    /\ w_pc = "open"
    /\ last_log' = "update_error_open"
    /\ hist' = [hist EXCEPT !.failed = TRUE]
    /\ w_pc' = "recv"
    /\ UNCHANGED <<root, chan, tx_state, sent, taken, cur, calls, conns,
                   w_result>>
    /\ UNCHANGED <<a_vars, s_vars, r_vars, k_vars, o_vars, p_vars, d_vars>>

\* update_index: indexer::update_directory_incremental(..)? returns, the
\* connection is dropped and cmd_watch logs the outcome.
UpdateRun ==
    /\ w_pc = "run"
    /\ conns' = ConnsAfterReturn(conns)
    /\ \E res \in {"Err"} \cup ({"Ok"} \X (0..1) \X (0..1)) :
          IF res = "Err"
          THEN /\ last_log' = "update_error_run"
               /\ hist' = [hist EXCEPT !.failed = TRUE]
          ELSE /\ last_log' = IF res[2] > 0 \/ res[3] > 0
                              THEN "updated" ELSE "no_changes"
               /\ hist' = [hist EXCEPT !.recovered = hist.failed]
    /\ w_pc' = "recv"
    /\ UNCHANGED <<root, chan, tx_state, sent, taken, cur, calls, w_result>>
    /\ UNCHANGED <<a_vars, s_vars, r_vars, k_vars, o_vars, p_vars, d_vars>>

cmd_watch ==
    \/ WatchNoIndex
    \/ WatchSetupError
    \/ WatchStart
    \/ WatchRecv
    \/ UpdateOpen
    \/ UpdateOpenFails
    \/ UpdateRun

Debouncer ==
    \/ DebouncerSend
    \/ DebouncerError
    \/ DebouncerGone

-----------------------------------------------------------------------------
(* The index store's per-file upsert and the incremental update that        *)
(* update_index (commands/watch.rs) runs: db::open_db and                   *)
(* indexer::update_directory_incremental, modelled from the write protocol, *)
(* the deletion protocol and the driver of the specification.               *)

Files == {"a.kt", "b.kt"}
Contents == 1..MaxContent

\* The content fingerprint: not injective.
Hash(c) == c % 2

\* What the extractors yield for a content.
ExtractSymbols(c) == {[name |-> "S", of |-> c], [name |-> "T", of |-> c]}
ExtractParents(c) == IF c = 1 THEN {} ELSE {[child |-> "S", of |-> c]}
ExtractRefs(c) == {[name |-> "R", of |-> c]}

NoRow == [file |-> None, symbols |-> {}, parents |-> {}, refs |-> {}]

\* The rows of a file once it is indexed from content c.
RowOf(c) == [file |-> Some(Hash(c)), symbols |-> ExtractSymbols(c),
             parents |-> ExtractParents(c), refs |-> ExtractRefs(c)]

\* Step 2 of the write protocol: the file row exists and the hash is the same.
UnchangedNever(row, h) == FALSE
Unchanged(row, h) == row.file = Some(h)

\* Step 4 of the write protocol: what the store holds after an abort.
AbortKeepsWrites(committed, view) == view
Aborted(committed, view) == committed

\* Step 3 of the write protocol: what the store holds after the commit.
Committed(committed, view) == view

\* update_index: Ok((updated, deleted)) of (updated, changed, deleted).
UpdateIndexOk(t) == <<t[1], t[3]>>

FullyIndexed(store, tree) ==
    \A f \in Files :
        store[f] = IF tree[f] = 0 THEN NoRow ELSE RowOf(tree[f])

Perms(S) ==
    {s \in [1..Cardinality(S) -> S] :
        \A i, j \in 1..Cardinality(S) : i # j => s[i] # s[j]}

NoPass == [clean |-> FALSE, edited |-> FALSE, touched |-> FALSE]
NoCounts == [updated |-> 0, changed |-> 0, deleted |-> 0]

StoreIdle ==
    /\ disk = [f \in Files |-> 0] /\ db = [f \in Files |-> NoRow]
    /\ tx = None /\ s_pc = "off" /\ walk = <<>> /\ s_cur = None
    /\ counts = NoCounts /\ pre = None /\ last_up = None /\ pass = NoPass
    /\ s_ret = None

StoreInit ==
    /\ disk \in [Files -> 0..MaxContent]
    /\ db = [f \in Files |-> NoRow]
    /\ tx = None /\ s_pc = "idle" /\ walk = <<>> /\ s_cur = None
    /\ counts = NoCounts /\ pre = None /\ last_up = None /\ pass = NoPass
    /\ s_ret = None

\* A file is written, created or removed by the user; never while one of
\* its upserts is between its read and its commit.
Edit ==
    /\ s_pc \in {"idle", "walk"}
    /\ \E f \in Files, c \in 0..MaxContent :
          /\ c # disk[f]
          /\ disk' = [disk EXCEPT ![f] = c]
    /\ pass' = IF s_pc = "walk" THEN [pass EXCEPT !.edited = TRUE] ELSE pass
    /\ UNCHANGED <<db, tx, s_pc, walk, s_cur, counts, pre, last_up, s_ret>>
    /\ UNCHANGED <<a_vars, w_vars, r_vars, k_vars, o_vars, p_vars, d_vars>>

\* update_index: db::open_db(root)? fails.
IndexOpenFails ==
    /\ s_pc = "idle"
    /\ s_ret' = Some([ok |-> FALSE])
    /\ UNCHANGED <<disk, db, tx, s_pc, walk, s_cur, counts, pre, last_up, pass>>
    /\ UNCHANGED <<a_vars, w_vars, r_vars, k_vars, o_vars, p_vars, d_vars>>

\* update_index: the store is opened and the traversal of the root begins.
IndexOpen ==
    /\ s_pc = "idle"
    /\ walk' \in Perms({f \in Files : disk[f] # 0})
    /\ counts' = NoCounts
    /\ pass' = [clean |-> FullyIndexed(db, disk), edited |-> FALSE,
                touched |-> FALSE]
    /\ pre' = None /\ last_up' = None /\ s_ret' = None
    /\ s_pc' = "walk"
    /\ UNCHANGED <<disk, db, tx, s_cur>>
    /\ UNCHANGED <<a_vars, w_vars, r_vars, k_vars, o_vars, p_vars, d_vars>>

\* The file cannot be read (gone, or not valid text): skipped with a warning.
UpsertSkip ==
    /\ s_pc = "walk" /\ walk # <<>>
    /\ walk' = Tail(walk)
    /\ last_up' = Some([file |-> Head(walk), content |-> 0,
                        outcome |-> "skipped", at |-> "walk"])
    /\ pre' = Some(db)
    /\ UNCHANGED <<disk, db, tx, s_pc, s_cur, counts, pass, s_ret>>
    /\ UNCHANGED <<a_vars, w_vars, r_vars, k_vars, o_vars, p_vars, d_vars>>

\* Steps 1 and 2 of the write protocol: the hash of the file's content is
\* computed; the upsert is a no-op if the stored hash is the same, and
\* otherwise opens its transaction.
UpsertBegin ==
    /\ s_pc = "walk" /\ walk # <<>>
    /\ disk[Head(walk)] # 0
    /\ LET f == Head(walk)
           c == disk[f]
       IN  IF Unchanged(db[f], Hash(c))
           THEN /\ walk' = Tail(walk)
                /\ last_up' = Some([file |-> f, content |-> c,
                                    outcome |-> "unchanged", at |-> "walk"])
                /\ UNCHANGED <<tx, s_pc, s_cur>>
           ELSE /\ tx' = Some(db)
                /\ s_cur' = Some([file |-> f, content |-> c])
                /\ s_pc' = "tx_delete"
                /\ UNCHANGED <<walk, last_up>>
    /\ pre' = Some(db)
    /\ UNCHANGED <<disk, db, counts, pass, s_ret>>
    /\ UNCHANGED <<a_vars, w_vars, r_vars, k_vars, o_vars, p_vars, d_vars>>

\* Step 3: delete the file row; the cascade removes its symbols, parents, refs.
TxDelete ==
    /\ s_pc = "tx_delete"
    /\ tx' = Some([tx[1] EXCEPT ![s_cur[1].file] = NoRow])
    /\ s_pc' = "tx_file"
    /\ UNCHANGED <<disk, db, walk, s_cur, counts, pre, last_up, pass, s_ret>>
    /\ UNCHANGED <<a_vars, w_vars, r_vars, k_vars, o_vars, p_vars, d_vars>>

\* Step 3: insert a fresh file row with the new hash.
TxInsertFile ==
    /\ s_pc = "tx_file"
    /\ tx' = Some([tx[1] EXCEPT ![s_cur[1].file].file =
                                    Some(Hash(s_cur[1].content))])
    /\ s_pc' = "tx_symbols"
    /\ UNCHANGED <<disk, db, walk, s_cur, counts, pre, last_up, pass, s_ret>>
    /\ UNCHANGED <<a_vars, w_vars, r_vars, k_vars, o_vars, p_vars, d_vars>>

\* Step 3: bulk-insert the new symbols.
TxInsertSymbols ==
    /\ s_pc = "tx_symbols"
    /\ tx' = Some([tx[1] EXCEPT ![s_cur[1].file].symbols =
                                    ExtractSymbols(s_cur[1].content)])
    /\ s_pc' = "tx_parents"
    /\ UNCHANGED <<disk, db, walk, s_cur, counts, pre, last_up, pass, s_ret>>
    /\ UNCHANGED <<a_vars, w_vars, r_vars, k_vars, o_vars, p_vars, d_vars>>

\* Step 3: bulk-insert the new parents.
TxInsertParents ==
    /\ s_pc = "tx_parents"
    /\ tx' = Some([tx[1] EXCEPT ![s_cur[1].file].parents =
                                    ExtractParents(s_cur[1].content)])
    /\ s_pc' = "tx_refs"
    /\ UNCHANGED <<disk, db, walk, s_cur, counts, pre, last_up, pass, s_ret>>
    /\ UNCHANGED <<a_vars, w_vars, r_vars, k_vars, o_vars, p_vars, d_vars>>

\* Step 3: bulk-insert the new refs.
TxInsertRefs ==
    /\ s_pc = "tx_refs"
    /\ tx' = Some([tx[1] EXCEPT ![s_cur[1].file].refs =
                                    ExtractRefs(s_cur[1].content)])
    /\ s_pc' = "tx_commit"
    /\ UNCHANGED <<disk, db, walk, s_cur, counts, pre, last_up, pass, s_ret>>
    /\ UNCHANGED <<a_vars, w_vars, r_vars, k_vars, o_vars, p_vars, d_vars>>

InTx == s_pc \in {"tx_delete", "tx_file", "tx_symbols", "tx_parents",
                  "tx_refs", "tx_commit"}

\* Step 3: commit. The file counts as updated, and as changed if it had a row.
TxCommit ==
    /\ s_pc = "tx_commit"
    /\ db' = Committed(db, tx[1])
    /\ tx' = None
    /\ counts' = [counts EXCEPT
                    !.updated = @ + 1,
                    !.changed = @ + (IF db[s_cur[1].file].file # None
                                     THEN 1 ELSE 0)]
    /\ last_up' = Some([file |-> s_cur[1].file, content |-> s_cur[1].content,
                        outcome |-> "committed", at |-> s_pc])
    /\ pass' = [pass EXCEPT !.touched = TRUE]
    /\ s_cur' = None
    /\ walk' = Tail(walk)
    /\ s_pc' = "walk"
    /\ UNCHANGED <<disk, pre, s_ret>>
    /\ UNCHANGED <<a_vars, w_vars, r_vars, k_vars, o_vars, p_vars, d_vars>>

\* Step 4: a statement of the transaction (or its commit) fails: the
\* transaction is aborted, the driver logs a warning and goes on.
TxAbort ==
    /\ InTx
    /\ db' = Aborted(db, tx[1])
    /\ tx' = None
    /\ last_up' = Some([file |-> s_cur[1].file, content |-> s_cur[1].content,
                        outcome |-> "aborted", at |-> s_pc])
    /\ pass' = [pass EXCEPT !.touched = @ \/ db' # db]
    /\ s_cur' = None
    /\ walk' = Tail(walk)
    /\ s_pc' = "walk"
    /\ UNCHANGED <<disk, counts, pre, s_ret>>
    /\ UNCHANGED <<a_vars, w_vars, r_vars, k_vars, o_vars, p_vars, d_vars>>

\* The deletion protocol, and the return of update_directory_incremental
\* and of update_index: every file row whose path is no longer on disk is
\* deleted with its symbols, parents and refs.
SweepAndReturn ==
    /\ s_pc = "walk" /\ walk = <<>>
    /\ LET gone == {f \in Files : db[f].file # None /\ disk[f] = 0}
           t    == <<counts.updated, counts.changed, Cardinality(gone)>>
       IN  /\ db' = [f \in Files |-> IF f \in gone THEN NoRow ELSE db[f]]
           /\ counts' = [counts EXCEPT !.deleted = Cardinality(gone)]
           /\ s_ret' = Some([ok |-> TRUE, incremental |-> t,
                             update_index |-> UpdateIndexOk(t)])
           /\ pass' = [pass EXCEPT !.touched = @ \/ gone # {}]
    /\ pre' = None /\ last_up' = None
    /\ s_pc' = "idle"
    /\ UNCHANGED <<disk, tx, walk, s_cur>>
    /\ UNCHANGED <<a_vars, w_vars, r_vars, k_vars, o_vars, p_vars, d_vars>>

upsert_file ==
    \/ UpsertSkip
    \/ UpsertBegin
    \/ TxDelete
    \/ TxInsertFile
    \/ TxInsertSymbols
    \/ TxInsertParents
    \/ TxInsertRefs
    \/ TxCommit
    \/ TxAbort

update_index ==
    \/ IndexOpenFails
    \/ IndexOpen
    \/ upsert_file
    \/ SweepAndReturn

-----------------------------------------------------------------------------
(* parsers/mod.rs: truncate_context and extract_references *)

MAX_CONTEXT_LEN == 500
LONG_LINE == 2000

\* Bytes of a character in UTF-8, and of a text (str::len).
Utf8Len(c) == IF c \in {"é"} THEN 2 ELSE 1
ByteLen(t) ==
    LET Count(w) == Cardinality({k \in DOMAIN t : Utf8Len(t[k]) = w})
    IN  Count(1) + 2 * Count(2) + 3 * Count(3) + 4 * Count(4)

PrefixBytes(t, k) == ByteLen(SubSeq(t, 1, k))

\* The number of whole leading characters within the first b bytes, found
\* by bisection between lo (which fits) and hi.
RECURSIVE CharsWithinFrom(_, _, _, _)
CharsWithinFrom(t, b, lo, hi) ==
    IF lo >= hi THEN lo
    ELSE LET mid == (lo + hi + 1) \div 2
         IN  IF PrefixBytes(t, mid) <= b THEN CharsWithinFrom(t, b, mid, hi)
             ELSE CharsWithinFrom(t, b, lo, mid - 1)
CharsWithin(t, b) ==
    CharsWithinFrom(t, b, 0, IF b < Len(t) THEN b ELSE Len(t))

\* str::is_char_boundary: byte offset b is the start of a character or the
\* end of the text.
is_char_boundary(t, b) == PrefixBytes(t, CharsWithin(t, b)) = b

\* while end < s.len() && !s.is_char_boundary(end) { end += 1; }
StaysAtEnd(t, end) == end
RECURSIVE AdvanceToBoundary(_, _)
AdvanceToBoundary(t, end) ==
    IF end < ByteLen(t) /\ ~is_char_boundary(t, end)
    THEN AdvanceToBoundary(t, end + 1) ELSE end

\* &s[..end]: the slice, or a panic when end is inside a character.
Panic == <<"panic">>
SliceTo(t, end) ==
    IF is_char_boundary(t, end) THEN SubSeq(t, 1, CharsWithin(t, end))
    ELSE Panic

Ellipsis == <<".", ".", ".">>

truncate_context(t) ==
    IF ByteLen(t) <= MAX_CONTEXT_LEN THEN t
    ELSE LET end == AdvanceToBoundary(t, MAX_CONTEXT_LEN)
             cut == SliceTo(t, IF end < ByteLen(t) THEN end ELSE ByteLen(t))
         IN  IF cut = Panic THEN Panic ELSE cut \o Ellipsis

IsAlnum(c) == c \in UPPER \cup LOWER \cup DIGIT
\* \w of the regex crate (Unicode): letters, digits, '_'.
IsWordChar(c) == IsAlnum(c) \/ c \in {"_", "é"}
\* \s, and the white space str::trim removes.
IsSpace(c) == c \in {" ", "\t", "\r"}

\* \b before position i (1..Len+1) of the line.
WordBoundary(line, i) ==
    (i > 1 /\ IsWordChar(line[i - 1])) # (i <= Len(line) /\ IsWordChar(line[i]))

\* [a-zA-Z0-9]* after position j, greedy: the last position of the run.
RECURSIVE RunEnd(_, _)
RunEnd(line, j) ==
    IF j < Len(line) /\ IsAlnum(line[j + 1]) THEN RunEnd(line, j + 1) ELSE j

\* \s* from position k, greedy: the first position after the run.
RECURSIVE SkipSpace(_, _)
SkipSpace(line, k) ==
    IF k <= Len(line) /\ IsSpace(line[k]) THEN SkipSpace(line, k + 1) ELSE k

\* The first position from i on at which a match of the pattern M begins,
\* 0 when there is none: a regex search tries the positions left to right.
NextMatch(line, i, M(_, _)) ==
    IF \E p \in i..Len(line) : M(line, p)
    THEN CHOOSE p \in i..Len(line) :
            M(line, p) /\ \A q \in i..(p - 1) : ~M(line, q)
    ELSE 0

\* IDENTIFIER_RE = \b([A-Z][a-zA-Z0-9]*)\b matches at position i.
IdentifierMatchAt(line, i) ==
    /\ WordBoundary(line, i)
    /\ line[i] \in UPPER
    /\ WordBoundary(line, RunEnd(line, i) + 1)

\* The captures of identifier_re.captures_iter from position i on (leftmost
\* matches, none overlapping).
RECURSIVE IdentifierCaptures(_, _)
IdentifierCaptures(line, i) ==
    LET p == NextMatch(line, i, IdentifierMatchAt)
    IN  IF p = 0 THEN <<>>
        ELSE <<SubSeq(line, p, RunEnd(line, p))>>
             \o IdentifierCaptures(line, RunEnd(line, p) + 1)

\* FUNC_CALL_RE = \b([a-z][a-zA-Z0-9]*)\s*\( matches at position i.
FuncCallMatchAnyIdentifier(line, i) ==
    WordBoundary(line, i) /\ line[i] \in LOWER
FuncCallMatchAt(line, i) ==
    /\ WordBoundary(line, i)
    /\ line[i] \in LOWER
    /\ SkipSpace(line, RunEnd(line, i) + 1) <= Len(line)
    /\ line[SkipSpace(line, RunEnd(line, i) + 1)] = "("

\* The captures of func_call_re.captures_iter from position i on.
RECURSIVE FuncCallCaptures(_, _)
FuncCallCaptures(line, i) ==
    LET p == NextMatch(line, i, FuncCallMatchAt)
    IN  IF p = 0 THEN <<>>
        ELSE <<SubSeq(line, p, RunEnd(line, p))>>
             \o FuncCallCaptures(line, SkipSpace(line, RunEnd(line, p) + 1) + 1)

\* The keywords and common type names never taken as references.
KEYWORDS ==
    {
      <<"i","f">>, <<"e","l","s","e">>, <<"w","h","e","n">>,
      <<"w","h","i","l","e">>, <<"f","o","r">>, <<"d","o">>, <<"t","r","y">>,
      <<"c","a","t","c","h">>, <<"f","i","n","a","l","l","y">>,
      <<"r","e","t","u","r","n">>, <<"b","r","e","a","k">>,
      <<"c","o","n","t","i","n","u","e">>, <<"t","h","r","o","w">>,
      <<"i","s">>, <<"i","n">>, <<"a","s">>, <<"t","r","u","e">>,
      <<"f","a","l","s","e">>, <<"n","u","l","l">>, <<"t","h","i","s">>,
      <<"s","u","p","e","r">>, <<"c","l","a","s","s">>,
      <<"i","n","t","e","r","f","a","c","e">>, <<"o","b","j","e","c","t">>,
      <<"f","u","n">>, <<"v","a","l">>, <<"v","a","r">>,
      <<"i","m","p","o","r","t">>, <<"p","a","c","k","a","g","e">>,
      <<"p","r","i","v","a","t","e">>, <<"p","u","b","l","i","c">>,
      <<"p","r","o","t","e","c","t","e","d">>,
      <<"i","n","t","e","r","n","a","l">>,
      <<"o","v","e","r","r","i","d","e">>,
      <<"a","b","s","t","r","a","c","t">>, <<"f","i","n","a","l">>,
      <<"o","p","e","n">>, <<"s","e","a","l","e","d">>, <<"d","a","t","a">>,
      <<"i","n","n","e","r">>, <<"e","n","u","m">>,
      <<"c","o","m","p","a","n","i","o","n">>,
      <<"l","a","t","e","i","n","i","t">>, <<"c","o","n","s","t">>,
      <<"s","u","s","p","e","n","d">>, <<"i","n","l","i","n","e">>,
      <<"c","r","o","s","s","i","n","l","i","n","e">>,
      <<"n","o","i","n","l","i","n","e">>, <<"r","e","i","f","i","e","d">>,
      <<"a","n","n","o","t","a","t","i","o","n">>,
      <<"t","y","p","e","a","l","i","a","s">>, <<"g","e","t">>,
      <<"s","e","t">>, <<"i","n","i","t">>,
      <<"c","o","n","s","t","r","u","c","t","o","r">>, <<"b","y">>,
      <<"w","h","e","r","e">>, <<"S","t","r","i","n","g">>, <<"I","n","t">>,
      <<"L","o","n","g">>, <<"D","o","u","b","l","e">>,
      <<"F","l","o","a","t">>, <<"B","o","o","l","e","a","n">>,
      <<"B","y","t","e">>, <<"S","h","o","r","t">>, <<"C","h","a","r">>,
      <<"U","n","i","t">>, <<"A","n","y">>, <<"N","o","t","h","i","n","g">>,
      <<"L","i","s","t">>, <<"M","a","p">>, <<"S","e","t">>,
      <<"A","r","r","a","y">>, <<"P","a","i","r">>,
      <<"T","r","i","p","l","e">>,
      <<"M","u","t","a","b","l","e","L","i","s","t">>,
      <<"M","u","t","a","b","l","e","M","a","p">>,
      <<"M","u","t","a","b","l","e","S","e","t">>,
      <<"H","a","s","h","M","a","p">>,
      <<"A","r","r","a","y","L","i","s","t">>,
      <<"H","a","s","h","S","e","t">>,
      <<"E","x","c","e","p","t","i","o","n">>, <<"E","r","r","o","r">>,
      <<"T","h","r","o","w","a","b","l","e">>, <<"R","e","s","u","l","t">>,
      <<"S","e","q","u","e","n","c","e">>
    }

\* str::lines: the pieces between '\n' from position i on, without a final
\* empty piece, each without a final '\r'.
NextNewline(t, i) ==
    IF \E p \in i..Len(t) : t[p] = "\n"
    THEN CHOOSE p \in i..Len(t) :
            t[p] = "\n" /\ \A q \in i..(p - 1) : t[q] # "\n"
    ELSE Len(t) + 1

RECURSIVE SplitLines(_, _)
SplitLines(t, i) ==
    IF i > Len(t) THEN <<>>
    ELSE <<SubSeq(t, i, NextNewline(t, i) - 1)>>
         \o SplitLines(t, NextNewline(t, i) + 1)

StripCR(l) ==
    IF l # <<>> /\ l[Len(l)] = "\r" THEN SubSeq(l, 1, Len(l) - 1) ELSE l

Lines(t) == [k \in 1..Len(SplitLines(t, 1)) |-> StripCR(SplitLines(t, 1)[k])]

\* str::trim
RECURSIVE TrimStart(_)
TrimStart(t) == IF t # <<>> /\ IsSpace(Head(t)) THEN TrimStart(Tail(t)) ELSE t
RECURSIVE TrimEnd(_)
TrimEnd(t) ==
    IF t # <<>> /\ IsSpace(t[Len(t)]) THEN TrimEnd(SubSeq(t, 1, Len(t) - 1))
    ELSE t
Trim(t) == TrimEnd(TrimStart(t))

StartsWith(t, prefix) ==
    Len(t) >= Len(prefix) /\ SubSeq(t, 1, Len(prefix)) = prefix

\* The three `continue`s at the head of the loop body.
SkipLineAnyLength(trimmed) ==
    \/ StartsWith(trimmed, <<"i","m","p","o","r","t"," ">>)
    \/ StartsWith(trimmed, <<"p","a","c","k","a","g","e"," ">>)
    \/ StartsWith(trimmed, <<"/","/">>)
    \/ StartsWith(trimmed, <<"/","*">>)
    \/ StartsWith(trimmed, <<"*">>)
SkipLine(trimmed) ==
    \/ ByteLen(trimmed) > LONG_LINE
    \/ StartsWith(trimmed, <<"i","m","p","o","r","t"," ">>)
    \/ StartsWith(trimmed, <<"p","a","c","k","a","g","e"," ">>)
    \/ StartsWith(trimmed, <<"/","/">>)
    \/ StartsWith(trimmed, <<"/","*">>)
    \/ StartsWith(trimmed, <<"*">>)

\* !name.is_empty() && !keywords.contains(name) && !defined_names.contains(name)
KeepsDefinedNames(name, defined) == name # <<>> /\ name \notin KEYWORDS
Keeps(name, defined) ==
    name # <<>> /\ name \notin KEYWORDS /\ name \notin defined

RECURSIVE SelectNames(_, _, _)
SelectNames(names, defined, min_len) ==
    IF names = <<>> THEN <<>>
    ELSE (IF Keeps(Head(names), defined) /\ ByteLen(Head(names)) > min_len
          THEN <<Head(names)>> ELSE <<>>)
         \o SelectNames(Tail(names), defined, min_len)

\* The body of `for (line_num, line) in content.lines().enumerate()`.
LineRefs(line, n, defined) ==
    IF SkipLine(Trim(line)) THEN <<>>
    ELSE LET types == SelectNames(IdentifierCaptures(line, 1), defined, 0)
             called == SelectNames(FuncCallCaptures(line, 1), defined, 2)
             ref(name) == [name |-> name, line |-> n,
                           context |-> truncate_context(Trim(line))]
         IN  [k \in 1..Len(types) |-> ref(types[k])]
             \o [k \in 1..Len(called) |-> ref(called[k])]

\* The pieces file contents are built from.
Tokens ==
    { <<"R","e","s","u","l","t">>,
      <<"F","o","o">>,
      <<"f","o","o">>,
      <<"g","e","t">>,
      <<"f","n">>,
      <<"(">>,
      <<" ">>,
      <<"_">>,
      <<"/","/">>,
      <<"\n">> }
\* The lists of defined symbols tried: with or without the file's own Result,
\* with or without its own Foo and foo.
DefinedNames ==
    {a \cup b : a \in SUBSET {<<"R","e","s","u","l","t">>},
                b \in {{}, {<<"F","o","o">>, <<"f","o","o">>}}}

RECURSIVE Concat(_)
Concat(ts) == IF ts = <<>> THEN <<>> ELSE Head(ts) \o Concat(Tail(ts))

RefsIdle ==
    /\ content = <<>> /\ defined_names = {} /\ r_pc = "off" /\ line_num = 1
    /\ refs = <<>>

RefsInit ==
    /\ content \in {Concat(ts) : ts \in UNION {[1..n -> Tokens] : n \in 0..MaxTokens}}
    /\ defined_names \in DefinedNames
    /\ r_pc = "lines"
    /\ line_num = 1
    /\ refs = <<>>

\* Contents with one long line: a head that holds a reference, then padding
\* up to a byte length around MAX_CONTEXT_LEN or LONG_LINE; alone, indented,
\* or followed by a second line.
Pad(n, c) == [k \in 1..n |-> c]
Heads == {<<"F","o","o"," ">>, <<"F","o","o","(",")">>, <<"f","o","o","(">>}
PadChars == {".", "é"}
LineLengths ==
    {10} \cup {MAX_CONTEXT_LEN + d : d \in (0 - Slack)..Slack}
         \cup {LONG_LINE + d : d \in (0 - Slack)..Slack}
LongLine(head, c, n) == head \o Pad((n - Len(head)) \div Utf8Len(c), c)
LongLines == {LongLine(h, c, n) : h \in Heads, c \in PadChars, n \in LineLengths}
LongContents ==
    LongLines
    \cup {<<" ", " ">> \o l \o <<" ">> : l \in LongLines}
    \cup {l \o <<"\n", "B", "a", "r">> : l \in LongLines}

RefsInitLong ==
    /\ content \in LongContents
    /\ defined_names = {}
    /\ r_pc = "lines"
    /\ line_num = 1
    /\ refs = <<>>

\* One iteration of the loop over the lines.
ExtractLine ==
    /\ r_pc = "lines"
    /\ line_num <= Len(Lines(content))
    /\ refs' = refs \o LineRefs(Lines(content)[line_num], line_num, defined_names)
    /\ line_num' = line_num + 1
    /\ UNCHANGED <<content, defined_names, r_pc>>
    /\ UNCHANGED <<a_vars, w_vars, s_vars, k_vars, o_vars, p_vars, d_vars>>

\* Ok(refs)
ExtractReturn ==
    /\ r_pc = "lines"
    /\ line_num > Len(Lines(content))
    /\ r_pc' = "done"
    /\ UNCHANGED <<content, defined_names, line_num, refs>>
    /\ UNCHANGED <<a_vars, w_vars, s_vars, k_vars, o_vars, p_vars, d_vars>>

extract_references ==
    \/ ExtractLine
    \/ ExtractReturn

-----------------------------------------------------------------------------
(* The regex crate, as the parsers use it: patterns are trees, a match is   *)
(* searched leftmost-first, the alternatives and the repetitions tried in   *)
(* the order of a backtracking matcher.                                     *)

Chr(S)    == [k |-> "set", set |-> S]        \* [...]
NotChr(S) == [k |-> "not", set |-> S]        \* [^...]
Str(w)    == [k |-> "lit", s |-> w]          \* a literal text
Cat(rs)   == [k |-> "seq", rs |-> rs]        \* r1 r2 ...
Alt(rs)   == [k |-> "alt", rs |-> rs]        \* r1|r2|...
Star(r)   == [k |-> "star", r |-> r]         \* r*  (greedy)
Opt(r)    == [k |-> "opt", r |-> r]          \* r?  (greedy)
Plus(r)   == Cat(<<r, Star(r)>>)             \* r+  (greedy)
Grp(n, r) == [k |-> "grp", n |-> n, r |-> r] \* capture group n
Bol       == [k |-> "bol"]                   \* (?m)^

WordChars  == UPPER \cup LOWER \cup DIGIT \cup {"_", "é"}   \* \w
SpaceChars == {" ", "\t", "\r", "\n"}                       \* \s

NoCaps == [n \in 1..5 |-> None]

\* The ways the pattern r matches the text t from position i on, best
\* first: each the position after the match and the groups captured.
RECURSIVE Match(_, _, _, _)
RECURSIVE ThenCat(_, _, _, _, _)
RECURSIVE MatchCat(_, _, _, _, _)
RECURSIVE MatchAlt(_, _, _, _, _)
RECURSIVE ThenStar(_, _, _, _)

ThenCat(ms, j, rs, n, t) ==
    IF j > Len(ms) THEN <<>>
    ELSE MatchCat(rs, n, t, ms[j].pos, ms[j].caps) \o ThenCat(ms, j + 1, rs, n, t)

MatchCat(rs, n, t, i, caps) ==
    IF n > Len(rs) THEN <<[pos |-> i, caps |-> caps]>>
    ELSE ThenCat(Match(rs[n], t, i, caps), 1, rs, n + 1, t)

MatchAlt(rs, n, t, i, caps) ==
    IF n > Len(rs) THEN <<>>
    ELSE Match(rs[n], t, i, caps) \o MatchAlt(rs, n + 1, t, i, caps)

ThenStar(ms, j, r, t) ==
    IF j > Len(ms) THEN <<>>
    ELSE Match(r, t, ms[j].pos, ms[j].caps) \o ThenStar(ms, j + 1, r, t)

Match(r, t, i, caps) ==
    LET here == <<[pos |-> i, caps |-> caps]>>
    IN  CASE r.k = "set" ->
               IF i <= Len(t) /\ t[i] \in r.set
               THEN <<[pos |-> i + 1, caps |-> caps]>> ELSE <<>>
          [] r.k = "not" ->
               IF i <= Len(t) /\ t[i] \notin r.set
               THEN <<[pos |-> i + 1, caps |-> caps]>> ELSE <<>>
          [] r.k = "lit" ->
               IF /\ i + Len(r.s) - 1 <= Len(t)
                  /\ SubSeq(t, i, i + Len(r.s) - 1) = r.s
               THEN <<[pos |-> i + Len(r.s), caps |-> caps]>> ELSE <<>>
          [] r.k = "bol" -> IF i = 1 \/ t[i - 1] = "\n" THEN here ELSE <<>>
          [] r.k = "seq" -> MatchCat(r.rs, 1, t, i, caps)
          [] r.k = "alt" -> MatchAlt(r.rs, 1, t, i, caps)
          [] r.k = "opt" -> Match(r.r, t, i, caps) \o here
          [] r.k = "star" ->
               LET Advances(m) == m.pos > i
               IN  ThenStar(SelectSeq(Match(r.r, t, i, caps), Advances), 1, r, t)
                   \o here
          [] r.k = "grp" ->
               LET ms == Match(r.r, t, i, caps)
               IN  [j \in 1..Len(ms) |->
                      [pos  |-> ms[j].pos,
                       caps |-> [ms[j].caps EXCEPT
                                   ![r.n] = Some(<<i, ms[j].pos - 1>>)]]]

\* Regex::captures: the best match at the first position that has one, None
\* when no position has one.
MatchesAt(r, t, i) == Match(r, t, i, NoCaps) # <<>>
captures(r, t) ==
    IF \E i \in 1..(Len(t) + 1) : MatchesAt(r, t, i)
    THEN LET i == CHOOSE p \in 1..(Len(t) + 1) :
                     MatchesAt(r, t, p) /\ \A q \in 1..(p - 1) : ~MatchesAt(r, t, q)
         IN  Some(Head(Match(r, t, i, NoCaps)))
    ELSE None

\* caps.get(n).map(|m| m.as_str()): the text of group n, None if unset.
CapGet(m, n, t) ==
    IF m.caps[n] = None THEN None
    ELSE Some(SubSeq(t, m.caps[n][1][1], m.caps[n][1][2]))

-----------------------------------------------------------------------------
(* parsers/kotlin.rs *)

HEADER_LINES == 20

ClassModifiersLackingEnum ==
    << Str(<<"p","u","b","l","i","c">>),
       Str(<<"p","r","i","v","a","t","e">>),
       Str(<<"p","r","o","t","e","c","t","e","d">>),
       Str(<<"i","n","t","e","r","n","a","l">>),
       Str(<<"a","b","s","t","r","a","c","t">>), Str(<<"o","p","e","n">>),
       Str(<<"f","i","n","a","l">>), Str(<<"s","e","a","l","e","d">>),
       Str(<<"d","a","t","a">>), Str(<<"v","a","l","u","e">>),
       Str(<<"i","n","l","i","n","e">>),
       Str(<<"a","n","n","o","t","a","t","i","o","n">>),
       Str(<<"i","n","n","e","r">>) >>
ClassModifiers ==
    << Str(<<"p","u","b","l","i","c">>),
       Str(<<"p","r","i","v","a","t","e">>),
       Str(<<"p","r","o","t","e","c","t","e","d">>),
       Str(<<"i","n","t","e","r","n","a","l">>),
       Str(<<"a","b","s","t","r","a","c","t">>), Str(<<"o","p","e","n">>),
       Str(<<"f","i","n","a","l">>), Str(<<"s","e","a","l","e","d">>),
       Str(<<"d","a","t","a">>), Str(<<"v","a","l","u","e">>),
       Str(<<"i","n","l","i","n","e">>),
       Str(<<"a","n","n","o","t","a","t","i","o","n">>),
       Str(<<"i","n","n","e","r">>), Str(<<"e","n","u","m">>) >>
InterfaceModifiers ==
    << Str(<<"p","u","b","l","i","c">>),
       Str(<<"p","r","i","v","a","t","e">>),
       Str(<<"p","r","o","t","e","c","t","e","d">>),
       Str(<<"i","n","t","e","r","n","a","l">>),
       Str(<<"s","e","a","l","e","d">>), Str(<<"f","u","n">>) >>
FunModifiers ==
    << Str(<<"p","u","b","l","i","c">>),
       Str(<<"p","r","i","v","a","t","e">>),
       Str(<<"p","r","o","t","e","c","t","e","d">>),
       Str(<<"i","n","t","e","r","n","a","l">>),
       Str(<<"o","v","e","r","r","i","d","e">>),
       Str(<<"s","u","s","p","e","n","d">>),
       Str(<<"i","n","l","i","n","e">>),
       Str(<<"o","p","e","r","a","t","o","r">>),
       Str(<<"i","n","f","i","x">>), Str(<<"t","a","i","l","r","e","c">>),
       Str(<<"e","x","t","e","r","n","a","l">>),
       Str(<<"a","c","t","u","a","l">>), Str(<<"e","x","p","e","c","t">>) >>
PropertyModifiers ==
    << Str(<<"p","u","b","l","i","c">>),
       Str(<<"p","r","i","v","a","t","e">>),
       Str(<<"p","r","o","t","e","c","t","e","d">>),
       Str(<<"i","n","t","e","r","n","a","l">>),
       Str(<<"o","v","e","r","r","i","d","e">>),
       Str(<<"c","o","n","s","t">>),
       Str(<<"l","a","t","e","i","n","i","t">>), Str(<<"l","a","z","y">>) >>
VisibilityModifiers ==
    << Str(<<"p","u","b","l","i","c">>),
       Str(<<"p","r","i","v","a","t","e">>),
       Str(<<"p","r","o","t","e","c","t","e","d">>),
       Str(<<"i","n","t","e","r","n","a","l">>) >>
JavaVisibility ==
    << Str(<<"p","u","b","l","i","c">>),
       Str(<<"p","r","i","v","a","t","e">>),
       Str(<<"p","r","o","t","e","c","t","e","d">>) >>

\* ((?:m1|m2|...)[\s]+)*
Modifiers(ms) == Star(Grp(1, Cat(<<Alt(ms), Plus(Chr(SpaceChars))>>)))
\* (?:\s*<[^>]*>)?
Generics == Opt(Cat(<<Star(Chr(SpaceChars)), Str(<<"<">>), Star(NotChr({">"})), Str(<<">">>)>>))

CLASS_START_RE ==
    Cat(<<Bol, Star(Chr(SpaceChars)), Modifiers(ClassModifiers),
          Alt(<<Str(<<"c","l","a","s","s">>), Str(<<"o","b","j","e","c","t">>)>>), Plus(Chr(SpaceChars)), Grp(2, Plus(Chr(WordChars)))>>)

INTERFACE_RE ==
    Cat(<<Bol, Star(Chr(SpaceChars)), Modifiers(InterfaceModifiers),
          Str(<<"i","n","t","e","r","f","a","c","e">>), Plus(Chr(SpaceChars)), Grp(2, Plus(Chr(WordChars))), Generics,
          Opt(Cat(<<Star(Chr(SpaceChars)), Str(<<":">>), Star(Chr(SpaceChars)),
                    Grp(3, Plus(NotChr({"{"})))>>))>>)

FUN_RE ==
    Cat(<<Bol, Star(Chr(SpaceChars)), Modifiers(FunModifiers),
          Str(<<"f","u","n">>), Plus(Chr(SpaceChars)),
          Opt(Cat(<<Str(<<"<">>), Star(NotChr({">"})), Str(<<">">>), Star(Chr(SpaceChars))>>)),
          Opt(Cat(<<Grp(2, Plus(Chr(WordChars))), Str(<<".">>)>>)),
          Grp(3, Plus(Chr(WordChars))), Star(Chr(SpaceChars)),
          Str(<<"(">>), Grp(4, Star(NotChr({")"}))), Str(<<")">>),
          Opt(Cat(<<Star(Chr(SpaceChars)), Str(<<":">>), Star(Chr(SpaceChars)),
                    Grp(5, Plus(NotChr(SpaceChars)))>>))>>)

PROPERTY_RE ==
    Cat(<<Bol, Star(Chr(SpaceChars)), Modifiers(PropertyModifiers),
          Alt(<<Str(<<"v","a","l">>), Str(<<"v","a","r">>)>>), Plus(Chr(SpaceChars)), Grp(2, Plus(Chr(WordChars))),
          Opt(Cat(<<Star(Chr(SpaceChars)), Str(<<":">>), Star(Chr(SpaceChars)),
                    Grp(3, Plus(NotChr(SpaceChars)))>>))>>)

TYPEALIAS_RE ==
    Cat(<<Bol, Star(Chr(SpaceChars)), Str(<<"t","y","p","e","a","l","i","a","s">>), Plus(Chr(SpaceChars)), Grp(1, Plus(Chr(WordChars))),
          Generics, Star(Chr(SpaceChars)), Str(<<"=">>), Star(Chr(SpaceChars)),
          Grp(2, Plus(NotChr({"\n"})))>>)

ENUM_RE ==
    Cat(<<Bol, Star(Chr(SpaceChars)), Modifiers(VisibilityModifiers),
          Str(<<"e","n","u","m">>), Plus(Chr(SpaceChars)), Str(<<"c","l","a","s","s">>), Plus(Chr(SpaceChars)), Grp(2, Plus(Chr(WordChars)))>>)

JAVA_FIELD_RE ==
    Cat(<<Bol, Star(Chr(SpaceChars)),
          Opt(Grp(1, Cat(<<Alt(JavaVisibility), Plus(Chr(SpaceChars))>>))),
          Opt(Cat(<<Str(<<"s","t","a","t","i","c">>), Plus(Chr(SpaceChars))>>)),
          Opt(Cat(<<Str(<<"f","i","n","a","l">>), Plus(Chr(SpaceChars))>>)),
          Grp(2, Cat(<<Plus(Chr(WordChars)),
                       Opt(Cat(<<Str(<<"<">>), Plus(NotChr({">"})), Str(<<">">>)>>))>>)),
          Plus(Chr(SpaceChars)),
          Grp(3, Cat(<<Chr(UPPER), Star(Chr(UPPER \cup DIGIT \cup {"_"}))>>)),
          Star(Chr(SpaceChars)), Str(<<"=">>)>>)

\* \)\s*:\s*([^{]+)
INHERITANCE_RE ==
    Cat(<<Str(<<")">>), Star(Chr(SpaceChars)), Str(<<":">>), Star(Chr(SpaceChars)),
          Grp(1, Plus(NotChr({"{"})))>>)

\* (?:class|object)\s+\w+(?:\s*<[^>]*>)?\s*:\s*([^{(]+)
SIMPLE_RE ==
    Cat(<<Alt(<<Str(<<"c","l","a","s","s">>), Str(<<"o","b","j","e","c","t">>)>>), Plus(Chr(SpaceChars)), Plus(Chr(WordChars)), Generics,
          Star(Chr(SpaceChars)), Str(<<":">>), Star(Chr(SpaceChars)),
          Grp(1, Plus(NotChr({"{", "("})))>>)

\* str::contains
Contains(t, w) ==
    \E i \in 1..(Len(t) - Len(w) + 1) : SubSeq(t, i, i + Len(w) - 1) = w

\* parse_parents: the pieces between the commas outside <...>, trimmed, the
\* empty ones left out. i is the position read, from where the piece began.
RECURSIVE ParseParentsFrom(_, _, _, _)
ParseParentsFrom(t, i, from, depth) ==
    LET piece == Trim(SubSeq(t, from, i - 1))
        kept  == IF piece = <<>> THEN <<>> ELSE <<piece>>
    IN  IF i > Len(t) THEN kept
        ELSE IF t[i] = "<" THEN ParseParentsFrom(t, i + 1, from, depth + 1)
        ELSE IF t[i] = ">" THEN ParseParentsFrom(t, i + 1, from, depth - 1)
        ELSE IF t[i] = "," /\ depth = 0
             THEN kept \o ParseParentsFrom(t, i + 1, i + 1, depth)
        ELSE ParseParentsFrom(t, i + 1, from, depth)
parse_parents(t) == ParseParentsFrom(t, 1, 1, 0)

\* str::trim_end_matches("()")
RECURSIVE TrimEndCalls(_)
TrimEndCalls(t) ==
    IF Len(t) >= 2 /\ SubSeq(t, Len(t) - 1, Len(t)) = <<"(", ")">>
    THEN TrimEndCalls(SubSeq(t, 1, Len(t) - 2)) ELSE t

\* .split('<').next().unwrap_or("")
BeforeGenerics(t) ==
    IF \E i \in 1..Len(t) : t[i] = "<"
    THEN SubSeq(t, 1, (CHOOSE i \in 1..Len(t) :
                          t[i] = "<" /\ \A j \in 1..(i - 1) : t[j] # "<") - 1)
    ELSE t

\* parent.trim().trim_end_matches("()").split('<').next().unwrap_or("").trim()
ParentName(parent) == Trim(BeforeGenerics(TrimEndCalls(Trim(parent))))

\* if parent.contains("()") { "extends" } else { "implements" }
InheritKind(parent) ==
    IF Contains(parent, <<"(", ")">>) THEN "extends" ELSE "implements"

\* The (name, kind) pairs of the pieces with a name.
NamedParents(pieces, Kind(_)) ==
    SelectSeq([j \in 1..Len(pieces) |->
                  <<ParentName(pieces[j]), Kind(pieces[j])>>],
              LAMBDA pr : pr[1] # <<>>)

extract_parents_from_declaration(decl) ==
    LET inh == captures(INHERITANCE_RE, decl)
        after_paren ==
            IF inh = None THEN <<>>
            ELSE NamedParents(parse_parents(CapGet(inh[1], 1, decl)[1]), InheritKind)
        sim == captures(SIMPLE_RE, decl)
        Implements(parent) == "implements"
    IN  IF after_paren # <<>> THEN after_paren
        ELSE IF sim = None THEN <<>>
        ELSE NamedParents(parse_parents(CapGet(sim[1], 1, decl)[1]), Implements)

\* The inner `for c in line.chars()`: the depth once the line is read, up to
\* its first '{'.
RECURSIVE DepthAfter(_, _, _)
DepthAfter(line, i, depth) ==
    IF i > Len(line) \/ line[i] = "{" THEN depth
    ELSE DepthAfter(line, i + 1,
                    IF line[i] = "(" THEN depth + 1
                    ELSE IF line[i] = ")" THEN depth - 1 ELSE depth)

\* The header lines one declaration may take.
LastHeaderLine(lines, start) ==
    IF Len(lines) < start + HEADER_LINES - 1 THEN Len(lines)
    ELSE start + HEADER_LINES - 1

\* collect_class_declaration: the lines from `start` on, each followed by a
\* space, up to the line with the first '{', the line before a body on a
\* line of its own, or the last line allowed.
RECURSIVE CollectFrom(_, _, _, _)
CollectFrom(lines, start, i, depth) ==
    IF i > LastHeaderLine(lines, start) THEN <<>>
    ELSE LET line == lines[i]
             d    == DepthAfter(line, 1, depth)
             stop ==
                 \/ Contains(line, <<"{">>)
                 \/ /\ d = 0 /\ Contains(line, <<":">>) /\ i > start
                    /\ i + 1 <= Len(lines)
                    /\ StartsWith(Trim(lines[i + 1]), <<"{">>)
         IN  line \o <<" ">>
             \o (IF stop THEN <<>> ELSE CollectFrom(lines, start, i + 1, d))
collect_class_declaration(lines, start) == CollectFrom(lines, start, start, 0)

\* .map(|m| m.as_str()).unwrap_or("")
UnwrapOrEmpty(o) == IF o = None THEN <<>> ELSE o[1]

ParsedSymbol(name, kind, n, line, parents) ==
    [name |-> name, kind |-> kind, line |-> n, signature |-> Trim(line),
     parents |-> parents]

\* The body of the loop of parse_kotlin_symbols for line n: the symbols it
\* pushes, in the order it pushes them.
ClassSymbols(lines, n) ==
    LET m == captures(CLASS_START_RE, lines[n])
    IN  IF m = None THEN <<>>
        ELSE <<ParsedSymbol(
                 UnwrapOrEmpty(CapGet(m[1], 2, lines[n])),
                 IF Contains(lines[n], <<"o","b","j","e","c","t"," ">>)
                 THEN "Object" ELSE "Class",
                 n, lines[n],
                 extract_parents_from_declaration(
                     collect_class_declaration(lines, n)))>>

InterfaceSymbols(lines, n) ==
    LET m == captures(INTERFACE_RE, lines[n])
        Extends(parent) == "extends"
        InterfaceParent(parent) == Trim(BeforeGenerics(Trim(parent)))
        ps == CapGet(m[1], 3, lines[n])
        pieces == IF ps = None THEN <<>> ELSE parse_parents(Trim(ps[1]))
    IN  IF m = None THEN <<>>
        ELSE <<ParsedSymbol(
                 UnwrapOrEmpty(CapGet(m[1], 2, lines[n])), "Interface", n, lines[n],
                 SelectSeq([j \in 1..Len(pieces) |->
                               <<InterfaceParent(pieces[j]), "extends">>],
                           LAMBDA pr : pr[1] # <<>>))>>

EnumSymbols(lines, n) ==
    LET m == captures(ENUM_RE, lines[n])
    IN  IF m = None THEN <<>>
        ELSE <<ParsedSymbol(UnwrapOrEmpty(CapGet(m[1], 2, lines[n])),
                            "Enum", n, lines[n], <<>>)>>

FunSymbols(lines, n) ==
    LET m == captures(FUN_RE, lines[n])
    IN  IF m = None THEN <<>>
        ELSE <<ParsedSymbol(UnwrapOrEmpty(CapGet(m[1], 3, lines[n])),
                            "Function", n, lines[n], <<>>)>>

PropertySymbols(lines, n) ==
    LET m == captures(PROPERTY_RE, lines[n])
        name == UnwrapOrEmpty(CapGet(m[1], 2, lines[n]))
    IN  IF m = None THEN <<>>
        ELSE IF name = <<>> \/ name = <<"v","a","l">> \/ name = <<"v","a","r">>
        THEN <<>>
        ELSE <<ParsedSymbol(name, "Property", n, lines[n], <<>>)>>

TypeAliasSymbols(lines, n) ==
    LET m == captures(TYPEALIAS_RE, lines[n])
    IN  IF m = None THEN <<>>
        ELSE <<ParsedSymbol(UnwrapOrEmpty(CapGet(m[1], 1, lines[n])),
                            "TypeAlias", n, lines[n], <<>>)>>

JavaFieldSymbols(lines, n) ==
    LET m == captures(JAVA_FIELD_RE, lines[n])
        name == UnwrapOrEmpty(CapGet(m[1], 3, lines[n]))
    IN  IF m = None \/ name = <<>> THEN <<>>
        ELSE <<ParsedSymbol(name, "Property", n, lines[n], <<>>)>>

KotlinLineSymbols(lines, n) ==
    ClassSymbols(lines, n) \o InterfaceSymbols(lines, n)
    \o EnumSymbols(lines, n) \o FunSymbols(lines, n)
    \o PropertySymbols(lines, n) \o TypeAliasSymbols(lines, n)
    \o JavaFieldSymbols(lines, n)

\* The declarations file contents are written from: `class A` or `object A`,
\* perhaps an enum class, without a constructor, with one on the first line
\* or with one parameter per line, with up to two parents written as a call
\* `B()` or bare `B`, the second perhaps on a line of its own, or with one
\* parent that is a call with arguments or has nested generics, and a body
\* that opens on the header's last line, on the next line, or no body at all
\* (a function follows). The long headers are those of a plain class with
\* its body opening on the header's last line.
\* A parent as a header writes it: its name, its generic arguments, and
\* for a supertype constructor call the arguments between the parentheses.
Parent(name, call) ==
    [name |-> name, call |-> call, generics |-> <<>>, args |-> <<>>]

ParentLists ==
    {<<>>}
    \cup {<<Parent(<<"B">>, c)>> : c \in BOOLEAN}
    \cup {<<Parent(<<"B">>, c), Parent(<<"C">>, e)>> : c \in BOOLEAN, e \in BOOLEAN}
    \cup {<<[Parent(<<"B">>, TRUE) EXCEPT !.args = <<"a",","," ","b">>]>>,
          <<[Parent(<<"B">>, FALSE) EXCEPT
                !.generics = <<"<","X","<","Y",">",","," ","Z",">">>]>>}
ParamCounts == {0, 1} \cup {HEADER_LINES - 3 + d : d \in 0..MaxOver}
Decls ==
    {d \in [kw : {"class", "object"}, enum : BOOLEAN,
            ctor : {"none", "one", "multi"}, params : ParamCounts,
            parents : ParentLists, split : BOOLEAN,
            body : {"brace", "nextline", "none"}] :
        /\ d.enum => d.kw = "class"
        /\ (d.ctor = "multi") = (d.params > 0)
        /\ d.params > 1 => d.kw = "class" /\ ~d.enum /\ d.body = "brace"
        /\ d.split => Len(d.parents) = 2}

ParentText(pr) ==
    pr.name \o pr.generics
    \o (IF pr.call THEN <<"(">> \o pr.args \o <<")">> ELSE <<>>)

\* The lines of the header of the declaration.
HeaderLines(d) ==
    LET first == (IF d.enum THEN <<"e","n","u","m"," ">> ELSE <<>>)
                 \o (IF d.kw = "class" THEN <<"c","l","a","s","s">> ELSE <<"o","b","j","e","c","t">>) \o <<" ","A">>
        clause ==
            IF d.parents = <<>> THEN <<>>
            ELSE <<" ",":"," ">> \o ParentText(d.parents[1])
                 \o (IF Len(d.parents) < 2 THEN <<>>
                     ELSE IF d.split THEN <<",">>
                     ELSE <<","," ">> \o ParentText(d.parents[2]))
        more == IF d.split THEN <<<<" "," "," "," ">> \o ParentText(d.parents[2])>> ELSE <<>>
        head == IF d.ctor = "none" THEN <<first \o clause>>
                ELSE IF d.ctor = "one" THEN <<first \o <<"(","x",":"," ","I","n","t",")">> \o clause>>
                ELSE <<first \o <<"(">> >>
                     \o [j \in 1..d.params |-> <<" "," "," "," ","v","a","l"," ","x",":"," ","I","n","t",",">>]
                     \o << <<")">> \o clause >>
        all == head \o more
    IN  IF d.body = "brace"
        THEN [all EXCEPT ![Len(all)] = @ \o <<" ", "{">>]
        ELSE all

\* What follows the header.
BodyLines(d) ==
    IF d.body = "brace" THEN << <<"}">> >>
    ELSE IF d.body = "nextline" THEN << <<"{">>, <<"}">> >>
    ELSE << <<"f","u","n"," ","f","(",")",":"," ","I","n","t"," ","{">>, <<"}">> >>

RECURSIVE JoinLines(_)
JoinLines(ls) ==
    IF ls = <<>> THEN <<>> ELSE Head(ls) \o <<"\n">> \o JoinLines(Tail(ls))

Render(d) == JoinLines(HeaderLines(d) \o BodyLines(d))

KotlinIdle ==
    /\ k_decl = None /\ k_content = <<>> /\ k_lines = <<>> /\ k_pc = "off"
    /\ k_n = 1 /\ k_symbols = <<>>

KotlinInit ==
    /\ \E d \in Decls : k_decl = Some(d) /\ k_content = Render(d)
    /\ k_lines = <<>>
    /\ k_pc = "start"
    /\ k_n = 1
    /\ k_symbols = <<>>

\* let lines: Vec<&str> = content.lines().collect();
KotlinLines ==
    /\ k_pc = "start"
    /\ k_lines' = Lines(k_content)
    /\ k_pc' = "loop"
    /\ UNCHANGED <<k_decl, k_content, k_n, k_symbols>>
    /\ UNCHANGED <<a_vars, w_vars, s_vars, r_vars, o_vars, p_vars, d_vars>>

\* One iteration of `for (line_num, line) in lines.iter().enumerate()`.
KotlinLine ==
    /\ k_pc = "loop"
    /\ k_n <= Len(k_lines)
    /\ k_symbols' = k_symbols \o KotlinLineSymbols(k_lines, k_n)
    /\ k_n' = k_n + 1
    /\ UNCHANGED <<k_decl, k_content, k_lines, k_pc>>
    /\ UNCHANGED <<a_vars, w_vars, s_vars, r_vars, o_vars, p_vars, d_vars>>

\* Ok(symbols)
KotlinReturn ==
    /\ k_pc = "loop"
    /\ k_n > Len(k_lines)
    /\ k_pc' = "done"
    /\ UNCHANGED <<k_decl, k_content, k_lines, k_n, k_symbols>>
    /\ UNCHANGED <<a_vars, w_vars, s_vars, r_vars, o_vars, p_vars, d_vars>>

parse_kotlin_symbols ==
    \/ KotlinLines
    \/ KotlinLine
    \/ KotlinReturn

-----------------------------------------------------------------------------
(* parsers/objc.rs *)

Sp == Chr(SpaceChars)
Word == Plus(Chr(WordChars))

\* str::split(sep): the pieces of t between the characters of seps, empty
\* pieces included.
RECURSIVE SplitFrom(_, _, _, _)
SplitFrom(t, seps, i, from) ==
    IF i > Len(t) THEN <<SubSeq(t, from, Len(t))>>
    ELSE IF t[i] \in seps
         THEN <<SubSeq(t, from, i - 1)>> \o SplitFrom(t, seps, i + 1, i + 1)
         ELSE SplitFrom(t, seps, i + 1, from)
Split(t, seps) == SplitFrom(t, seps, 1, 1)

\* (?m)^[\s]*@interface\s+(\w+)(?:\s*\([^)]*\))?(?:\s*:\s*(\w+))?(?:\s*<([^>]+)>)?
OBJC_INTERFACE_RE ==
    Cat(<<Bol, Star(Sp), Str(<<"@","i","n","t","e","r","f","a","c","e">>), Plus(Sp), Grp(1, Word),
          Opt(Cat(<<Star(Sp), Str(<<"(">>), Star(NotChr({")"})), Str(<<")">>)>>)),
          Opt(Cat(<<Star(Sp), Str(<<":">>), Star(Sp), Grp(2, Word)>>)),
          Opt(Cat(<<Star(Sp), Str(<<"<">>), Grp(3, Plus(NotChr({">"}))), Str(<<">">>)>>))>>)

\* (?m)^[\s]*@protocol\s+(\w+)(?:\s*<([^>]+)>)?
PROTOCOL_RE ==
    Cat(<<Bol, Star(Sp), Str(<<"@","p","r","o","t","o","c","o","l">>), Plus(Sp), Grp(1, Word),
          Opt(Cat(<<Star(Sp), Str(<<"<">>), Grp(2, Plus(NotChr({">"}))), Str(<<">">>)>>))>>)

\* (?m)^[\s]*@implementation\s+(\w+)
IMPL_RE ==
    Cat(<<Bol, Star(Sp), Str(<<"@","i","m","p","l","e","m","e","n","t","a","t","i","o","n">>), Plus(Sp), Grp(1, Word)>>)

\* (?m)^[\s]*[-+]\s*\([^)]+\)\s*(\w+)
METHOD_RE ==
    Cat(<<Bol, Star(Sp), Chr({"-", "+"}), Star(Sp), Str(<<"(">>),
          Plus(NotChr({")"})), Str(<<")">>), Star(Sp), Grp(1, Word)>>)

\* (?m)^[\s]*@property\s*(?:\([^)]*\))?\s*\w+[\s*]*(\w+)\s*;
OBJC_PROPERTY_RE ==
    Cat(<<Bol, Star(Sp), Str(<<"@","p","r","o","p","e","r","t","y">>), Star(Sp),
          Opt(Cat(<<Str(<<"(">>), Star(NotChr({")"})), Str(<<")">>)>>)), Star(Sp),
          Word, Star(Chr(SpaceChars \cup {"*"})), Grp(1, Word), Star(Sp),
          Str(<<";">>)>>)

\* (?m)^[\s]*typedef\s+(?:struct|enum|NS_ENUM|NS_OPTIONS)?\s*(?:\([^)]*\))?\s*\{?[^}]*\}?\s*(\w+)\s*;
TYPEDEF_RE ==
    Cat(<<Bol, Star(Sp), Str(<<"t","y","p","e","d","e","f">>), Plus(Sp),
          Opt(Alt(<<Str(<<"s","t","r","u","c","t">>), Str(<<"e","n","u","m">>), Str(<<"N","S","_","E","N","U","M">>),
                    Str(<<"N","S","_","O","P","T","I","O","N","S">>)>>)), Star(Sp),
          Opt(Cat(<<Str(<<"(">>), Star(NotChr({")"})), Str(<<")">>)>>)), Star(Sp),
          Opt(Str(<<"{">>)), Star(NotChr({"}"})), Opt(Str(<<"}">>)), Star(Sp),
          Grp(1, Word), Star(Sp), Str(<<";">>)>>)

\* The names of a `<...>` list: split(','), trimmed, the empty ones dropped,
\* each with the given inheritance kind.
ProtocolParents(list, kind) ==
    LET pieces == Split(list, {","})
        named  == SelectSeq([j \in 1..Len(pieces) |-> Trim(pieces[j])],
                            LAMBDA proto : proto # <<>>)
    IN  [j \in 1..Len(named) |-> <<named[j], kind>>]

\* let is_category = line.contains("{name}(") || line.contains("{name} (")
is_category(line, name) ==
    \/ Contains(line, name \o <<"(">>)
    \/ Contains(line, name \o <<" ","(">>)

\* The @interface block of the loop body: the symbols it pushes for a line.
ObjcInterfaceSymbols(line, n) ==
    LET m == captures(OBJC_INTERFACE_RE, line)
    IN  IF m = None THEN <<>>
        ELSE LET name       == UnwrapOrEmpty(CapGet(m[1], 1, line))
                 superclass == CapGet(m[1], 2, line)
                 protocols  == CapGet(m[1], 3, line)
                 parents ==
                     (IF superclass = None THEN <<>>
                      ELSE <<<<superclass[1], "extends">>>>)
                     \o (IF protocols = None THEN <<>>
                         ELSE ProtocolParents(protocols[1], "implements"))
             IN  IF is_category(line, name)
                 THEN <<ParsedSymbol(name \o <<"+","C","a","t","e","g","o","r","y">>, "Object", n, line,
                                     <<<<name, "extends">>>>)>>
                 ELSE <<ParsedSymbol(name, "Class", n, line, parents)>>

\* The @protocol block.
ProtocolSymbols(line, n) ==
    LET m == captures(PROTOCOL_RE, line)
    IN  IF m = None THEN <<>>
        ELSE LET parent_protocols == CapGet(m[1], 2, line)
             IN  <<ParsedSymbol(UnwrapOrEmpty(CapGet(m[1], 1, line)),
                                "Interface", n, line,
                                IF parent_protocols = None THEN <<>>
                                ELSE ProtocolParents(parent_protocols[1],
                                                     "extends"))>>

\* symbols.iter().any(|s| s.name == name && s.kind == SymbolKind::Class)
HasClassNever(syms, name) == FALSE

HasClass(syms, name) ==
    \E j \in 1..Len(syms) : syms[j].name = name /\ syms[j].kind = "Class"

\* The @implementation block: it looks at the symbols pushed so far.
ImplementationSymbols(syms, line, n) ==
    LET m == captures(IMPL_RE, line)
    IN  IF m = None THEN <<>>
        ELSE LET name == UnwrapOrEmpty(CapGet(m[1], 1, line))
             IN  IF ~HasClass(syms, name)
                 THEN <<ParsedSymbol(name, "Class", n, line, <<>>)>>
                 ELSE <<>>

\* The method block.
MethodSymbols(line, n) ==
    LET m == captures(METHOD_RE, line)
    IN  IF m = None THEN <<>>
        ELSE <<ParsedSymbol(UnwrapOrEmpty(CapGet(m[1], 1, line)), "Function",
                            n, line, <<>>)>>

\* The @property block.
ObjcPropertySymbols(line, n) ==
    LET m == captures(OBJC_PROPERTY_RE, line)
    IN  IF m = None THEN <<>>
        ELSE <<ParsedSymbol(UnwrapOrEmpty(CapGet(m[1], 1, line)), "Property",
                            n, line, <<>>)>>

\* The typedef block.
TypedefSymbols(line, n) ==
    LET m == captures(TYPEDEF_RE, line)
    IN  IF m = None THEN <<>>
        ELSE LET name == UnwrapOrEmpty(CapGet(m[1], 1, line))
             IN  IF name # <<>> /\ name # <<"N","S","_","E","N","U","M">> /\ name # <<"N","S","_","O","P","T","I","O","N","S">>
                 THEN <<ParsedSymbol(name, "TypeAlias", n, line, <<>>)>>
                 ELSE <<>>

\* The whole loop body for line n: `symbols` after it.
ObjcAfterLine(syms, line, n) ==
    LET s1 == syms \o ObjcInterfaceSymbols(line, n) \o ProtocolSymbols(line, n)
        s2 == s1 \o ImplementationSymbols(s1, line, n)
    IN  s2 \o MethodSymbols(line, n) \o ObjcPropertySymbols(line, n)
           \o TypedefSymbols(line, n)

\* The lines file contents are written from: class interfaces with and
\* without a superclass and protocols, categories written with no, one and
\* two blanks before the parenthesis, implementations, and one line of each
\* other construct the parser reads.
ObjcLines ==
    {<<"@","i","n","t","e","r","f","a","c","e"," ","A"," ",":"," ","S"," ","<","P",","," ","Q",">">>,
     <<"@","i","n","t","e","r","f","a","c","e"," ","A">>,
     <<"@","i","n","t","e","r","f","a","c","e"," ","A"," ","(","T",")">>,
     <<"@","i","n","t","e","r","f","a","c","e"," ","A","(","T",")">>,
     <<"@","i","n","t","e","r","f","a","c","e"," ","A"," "," ","(","T",")">>,
     <<"@","i","n","t","e","r","f","a","c","e"," ","B"," ","(","T",")"," ","<","P",">">>,
     <<"@","i","m","p","l","e","m","e","n","t","a","t","i","o","n"," ","A">>,
     <<"@","i","m","p","l","e","m","e","n","t","a","t","i","o","n"," ","B">>,
     <<"@","p","r","o","t","o","c","o","l"," ","P"," ","<","Q",">">>,
     <<"-"," ","(","v","o","i","d",")","r","u","n">>,
     <<"@","p","r","o","p","e","r","t","y"," ","(","x",")"," ","T"," ","*","n",";">>,
     <<"t","y","p","e","d","e","f"," ","i","n","t"," ","T",";">>}

ObjcContents ==
    {JoinLines(ls) : ls \in UNION {[1..k -> ObjcLines] : k \in 1..MaxObjcLines}}

ObjcIdle ==
    o_content = <<>> /\ o_pc = "off" /\ o_n = 1 /\ o_symbols = <<>>

ObjcInit ==
    /\ o_content \in ObjcContents
    /\ o_pc = "loop"
    /\ o_n = 1
    /\ o_symbols = <<>>

\* One iteration of `for (line_num, line) in content.lines().enumerate()`.
ObjcLine ==
    /\ o_pc = "loop"
    /\ o_n <= Len(Lines(o_content))
    /\ o_symbols' = ObjcAfterLine(o_symbols, Lines(o_content)[o_n], o_n)
    /\ o_n' = o_n + 1
    /\ UNCHANGED <<o_content, o_pc>>
    /\ UNCHANGED <<a_vars, w_vars, s_vars, r_vars, k_vars, p_vars, d_vars>>

\* Ok(symbols)
ObjcReturn ==
    /\ o_pc = "loop"
    /\ o_n > Len(Lines(o_content))
    /\ o_pc' = "done"
    /\ UNCHANGED <<o_content, o_n, o_symbols>>
    /\ UNCHANGED <<a_vars, w_vars, s_vars, r_vars, k_vars, p_vars, d_vars>>

parse_objc_symbols ==
    \/ ObjcLine
    \/ ObjcReturn

-----------------------------------------------------------------------------
(* parsers/perl.rs *)

PerlIdle ==
    /\ p_content = <<>> /\ p_pc = "off" /\ p_n = 1 /\ p_symbols = <<>>
    /\ current_package = None /\ pending_parents = <<>>

Letters == UPPER \cup LOWER \cup {"_"}
Quotes == {"'", "\""}

\* ^\s*package\s+([A-Za-z_][A-Za-z0-9_:]*)\s*;
PACKAGE_RE ==
    Cat(<<Bol, Star(Sp), Str(<<"p","a","c","k","a","g","e">>), Plus(Sp),
          Grp(1, Cat(<<Chr(Letters), Star(Chr(Letters \cup DIGIT \cup {":"}))>>)),
          Star(Sp), Str(<<";">>)>>)

\* ^\s*sub\s+([A-Za-z_][A-Za-z0-9_]*)\s*[\{(]?
SUB_RE ==
    Cat(<<Bol, Star(Sp), Str(<<"s","u","b">>), Plus(Sp),
          Grp(1, Cat(<<Chr(Letters), Star(Chr(Letters \cup DIGIT))>>)),
          Star(Sp), Opt(Chr({"{", "("}))>>)

\* ^\s*use\s+constant\s+([A-Z_][A-Z0-9_]*)\s*=>
CONSTANT_RE ==
    Cat(<<Bol, Star(Sp), Str(<<"u","s","e">>), Plus(Sp), Str(<<"c","o","n","s","t","a","n","t">>), Plus(Sp),
          Grp(1, Cat(<<Chr(UPPER \cup {"_"}),
                       Star(Chr(UPPER \cup DIGIT \cup {"_"}))>>)),
          Star(Sp), Str(<<"=",">">>)>>)

\* ^\s*our\s+([\$@%][A-Za-z_][A-Za-z0-9_]*)
OUR_RE ==
    Cat(<<Bol, Star(Sp), Str(<<"o","u","r">>), Plus(Sp),
          Grp(1, Cat(<<Chr({"$", "@", "%"}), Chr(Letters),
                       Star(Chr(Letters \cup DIGIT))>>))>>)

\* qw[/(]([^)/\\]+)[)/\\]  with the list as group n
QwList(n) ==
    Cat(<<Str(<<"q","w">>), Chr({"/", "("}), Grp(n, Plus(NotChr({")", "/", "\\"}))),
          Chr({")", "/", "\\"})>>)

\* use\s+(?:base|parent)\s+(?:qw[/(]([^)/\\]+)[)/\\]|['"]([^'"]+)['"])
USE_BASE_RE ==
    Cat(<<Str(<<"u","s","e">>), Plus(Sp), Alt(<<Str(<<"b","a","s","e">>), Str(<<"p","a","r","e","n","t">>)>>), Plus(Sp),
          Alt(<<QwList(1),
                Cat(<<Chr(Quotes), Grp(2, Plus(NotChr(Quotes))), Chr(Quotes)>>)>>)>>)

\* our\s+@ISA\s*=\s*(?:qw[/(]([^)/\\]+)[)/\\]|\(([^)]+)\))
ISA_RE ==
    Cat(<<Str(<<"o","u","r">>), Plus(Sp), Str(<<"@","I","S","A">>), Star(Sp), Str(<<"=">>), Star(Sp),
          Alt(<<QwList(1),
                Cat(<<Str(<<"(">>), Grp(2, Plus(NotChr({")"}))), Str(<<")">>)>>)>>)>>)

\* caps.get(1).or_else(|| caps.get(2)).map(|m| m.as_str())
ParentsStr(m, line) ==
    IF CapGet(m, 1, line) # None THEN CapGet(m, 1, line) ELSE CapGet(m, 2, line)

\* str::trim_matches(quote)
RECURSIVE TrimQuotes(_)
TrimQuotes(t) ==
    IF t # <<>> /\ Head(t) \in Quotes THEN TrimQuotes(Tail(t))
    ELSE IF t # <<>> /\ t[Len(t)] \in Quotes
         THEN TrimQuotes(SubSeq(t, 1, Len(t) - 1))
         ELSE t

NonEmpty(pieces) == SelectSeq(pieces, LAMBDA piece : piece # <<>>)

\* The parent entries a `use base` / `use parent` line names:
\* ps.split_whitespace(), each trimmed, the empty ones dropped.
UseBaseEntries(line) ==
    LET m == captures(USE_BASE_RE, line)
    IN  IF m = None \/ ParentsStr(m[1], line) = None THEN <<>>
        ELSE LET pieces == Split(ParentsStr(m[1], line)[1], SpaceChars)
                 named  == NonEmpty([j \in 1..Len(pieces) |-> Trim(pieces[j])])
             IN  [j \in 1..Len(named) |-> <<named[j], "extends">>]

\* The parent entries an `our @ISA = ...` line names: split at white space
\* and commas, each trimmed and stripped of quotes, the empty ones dropped.
IsaEntries(line) ==
    LET m == captures(ISA_RE, line)
    IN  IF m = None \/ ParentsStr(m[1], line) = None THEN <<>>
        ELSE LET pieces == Split(ParentsStr(m[1], line)[1], SpaceChars \cup {","})
                 named  == NonEmpty([j \in 1..Len(pieces) |->
                                        TrimQuotes(Trim(pieces[j]))])
             IN  [j \in 1..Len(named) |-> <<named[j], "extends">>]

\* What the two inheritance blocks do with the entries of a line: pushed on
\* the parents of symbols[idx] when there is a current package, saved in
\* pending_parents when there is none.
Attach(st, entries) ==
    IF st.current_package = None
    THEN [st EXCEPT !.pending_parents = @ \o entries]
    ELSE LET idx == st.current_package[1][2]
         IN  IF idx < Len(st.symbols)
             THEN [st EXCEPT !.symbols[idx + 1].parents = @ \o entries]
             ELSE st

\* current_package = Some((name, symbols.len() as i64 - 1)), after the push
PackageIndexOfFirst(syms) == 0

PackageIndex(syms) == Len(syms) - 1

\* The package block: the pending parents move to the new Package symbol,
\* which becomes the current package.
PackageLine(st, name, line, n) ==
    LET syms == Append(st.symbols,
                       ParsedSymbol(name, "Package", n, line, st.pending_parents))
    IN  [symbols         |-> syms,
         current_package |-> Some(<<name, PackageIndex(syms)>>),
         pending_parents |-> <<>>]

\* A block that pushes one symbol without parents.
Push(st, name, kind, line, n) ==
    [st EXCEPT !.symbols = Append(@, ParsedSymbol(name, kind, n, line, <<>>))]

\* The `our` block and the two inheritance blocks, which a line reaches when
\* it is no package, sub or constant line.
OurAndInheritance(st, line, n) ==
    LET m    == captures(OUR_RE, line)
        name == IF m = None THEN <<>> ELSE UnwrapOrEmpty(CapGet(m[1], 1, line))
        s1   == IF name # <<>> /\ name # <<"@","I","S","A">>
                THEN Push(st, name, "Property", line, n) ELSE st
    IN  Attach(Attach(s1, UseBaseEntries(line)), IsaEntries(line))

\* The whole loop body for line n, with its `continue`s.
PerlAfterLine(st, line, n) ==
    LET pkg == captures(PACKAGE_RE, line)
        sub == captures(SUB_RE, line)
        con == captures(CONSTANT_RE, line)
        Name(m) == UnwrapOrEmpty(CapGet(m[1], 1, line))
    IN  IF pkg # None
        THEN IF Name(pkg) # <<>> THEN PackageLine(st, Name(pkg), line, n) ELSE st
        ELSE IF sub # None
        THEN IF Name(sub) # <<>> THEN Push(st, Name(sub), "Function", line, n) ELSE st
        ELSE IF con # None
        THEN IF Name(con) # <<>> THEN Push(st, Name(con), "Constant", line, n) ELSE st
        ELSE OurAndInheritance(st, line, n)

\* The lines file contents are written from: two packages, the three ways
\* of naming parents (one line holds two of them), and one line of each
\* other construct the parser reads.
PerlLines ==
    {<<"p","a","c","k","a","g","e"," ","A",";">>,
     <<"p","a","c","k","a","g","e"," ","B",";">>,
     <<"u","s","e"," ","b","a","s","e"," ","q","w","/","P"," ","Q","/",";">>,
     <<"o","u","r"," ","@","I","S","A"," ","="," ","(","'","S","'",","," ","'","T","'",")",";">>,
     <<"o","u","r"," ","@","I","S","A"," ","="," ","(","'","S","'",")",";"," ","u","s","e"," ","p","a","r","e","n","t"," ","'","R","'",";">>,
     <<"s","u","b"," ","f"," ","{">>,
     <<"u","s","e"," ","c","o","n","s","t","a","n","t"," ","K"," ","=",">"," ","1",";">>,
     <<"o","u","r"," ","$","V"," ","="," ","1",";">>}

PerlContents ==
    {JoinLines(ls) : ls \in UNION {[1..k -> PerlLines] : k \in 1..MaxPerlLines}}

PerlInit ==
    /\ p_content \in PerlContents
    /\ p_pc = "loop"
    /\ p_n = 1
    /\ p_symbols = <<>>
    /\ current_package = None
    /\ pending_parents = <<>>

\* One iteration of `for (line_num, line) in content.lines().enumerate()`.
PerlLine ==
    /\ p_pc = "loop"
    /\ p_n <= Len(Lines(p_content))
    /\ LET st == PerlAfterLine([symbols         |-> p_symbols,
                                current_package |-> current_package,
                                pending_parents |-> pending_parents],
                               Lines(p_content)[p_n], p_n)
       IN  /\ p_symbols' = st.symbols
           /\ current_package' = st.current_package
           /\ pending_parents' = st.pending_parents
    /\ p_n' = p_n + 1
    /\ UNCHANGED <<p_content, p_pc>>
    /\ UNCHANGED <<a_vars, w_vars, s_vars, r_vars, k_vars, o_vars, d_vars>>

\* Ok(symbols): pending_parents is dropped with the function's frame.
PerlReturn ==
    /\ p_pc = "loop"
    /\ p_n > Len(Lines(p_content))
    /\ p_pc' = "done"
    /\ pending_parents' = <<>>
    /\ UNCHANGED <<p_content, p_n, p_symbols, current_package>>
    /\ UNCHANGED <<a_vars, w_vars, s_vars, r_vars, k_vars, o_vars, d_vars>>

parse_perl_symbols ==
    \/ PerlLine
    \/ PerlReturn

-----------------------------------------------------------------------------
(* parsers/mod.rs: parse_symbols_and_refs *)

DispatchIdle ==
    d_flags = <<>> /\ d_pc = "off" /\ d_called = <<>> /\ d_result = "none"

\* The dialect flags, in the order of the parameter list.
Flags ==
    <<"is_swift", "is_objc", "is_perl", "is_proto", "is_wsdl", "is_cpp",
      "is_python", "is_go", "is_rust", "is_ruby", "is_csharp", "is_dart",
      "is_typescript", "is_vue", "is_svelte">>

\* The `let symbols = if is_swift { ... } else if ... else { ... }` chain:
\* the functions it calls for the flags f, in order.
SymbolCallsObjcFirst(f) ==
    IF f.is_objc THEN <<"parse_objc_symbols">>
    ELSE IF f.is_swift THEN <<"parse_swift_symbols">>
    ELSE <<"parse_kotlin_symbols">>

SymbolCalls(f) ==
    IF f.is_swift THEN <<"parse_swift_symbols">>
    ELSE IF f.is_objc THEN <<"parse_objc_symbols">>
    ELSE IF f.is_perl THEN <<"parse_perl_symbols">>
    ELSE IF f.is_proto THEN <<"parse_proto_symbols">>
    ELSE IF f.is_wsdl THEN <<"parse_wsdl_symbols">>
    ELSE IF f.is_cpp THEN <<"parse_cpp_symbols">>
    ELSE IF f.is_python THEN <<"parse_python_symbols">>
    ELSE IF f.is_go THEN <<"parse_go_symbols">>
    ELSE IF f.is_rust THEN <<"parse_rust_symbols">>
    ELSE IF f.is_ruby THEN <<"parse_ruby_symbols">>
    ELSE IF f.is_csharp THEN <<"parse_csharp_symbols">>
    ELSE IF f.is_dart THEN <<"parse_dart_symbols">>
    ELSE IF f.is_typescript THEN <<"parse_typescript_symbols">>
    ELSE IF f.is_vue THEN <<"extract_vue_script", "parse_typescript_symbols">>
    ELSE IF f.is_svelte THEN <<"extract_svelte_script", "parse_typescript_symbols">>
    ELSE <<"parse_kotlin_symbols">>

\* The calls of parse_symbols_and_refs: any combination of at most MaxFlags
\* set flags.
FlagSets ==
    {[f \in SeqRange(Flags) |-> f \in S] :
        S \in {T \in SUBSET SeqRange(Flags) : Cardinality(T) <= MaxFlags}}

DispatchInit ==
    /\ d_flags \in FlagSets
    /\ d_pc = "symbols"
    /\ d_called = <<>>
    /\ d_result = "none"

\* The extractor chosen by the chain returns Ok(symbols).
DispatchSymbols ==
    /\ d_pc = "symbols"
    /\ d_called' = d_called \o SymbolCalls(d_flags)
    /\ d_pc' = "refs"
    /\ UNCHANGED <<d_flags, d_result>>
    /\ UNCHANGED <<a_vars, w_vars, s_vars, r_vars, k_vars, o_vars, p_vars>>

\* The extractor chosen by the chain returns an error, which `?` returns.
DispatchSymbolsErr ==
    /\ d_pc = "symbols"
    /\ d_called' = d_called \o SymbolCalls(d_flags)
    /\ d_pc' = "done"
    /\ d_result' = "Err"
    /\ UNCHANGED d_flags
    /\ UNCHANGED <<a_vars, w_vars, s_vars, r_vars, k_vars, o_vars, p_vars>>

\* let refs = extract_references(content, &symbols)?; Ok((symbols, refs))
DispatchRefs ==
    /\ d_pc = "refs"
    /\ d_called' = Append(d_called, "extract_references")
    /\ d_pc' = "done"
    /\ d_result' = "Ok"
    /\ UNCHANGED d_flags
    /\ UNCHANGED <<a_vars, w_vars, s_vars, r_vars, k_vars, o_vars, p_vars>>

parse_symbols_and_refs ==
    \/ DispatchSymbols
    \/ DispatchSymbolsErr
    \/ DispatchRefs

-----------------------------------------------------------------------------
(* Indexing one file and then asking for its unused symbols: the references
   extract_references returned and the file's symbols are stored, and
   cmd_unused_symbols runs on the store. *)

FilePath == <<"a","b">>

\* The rows stored for the file: one symbols row per defined name (a class
\* when the name starts with a capital, a function otherwise) and one refs
\* row per reference; no layout or UI descriptor is indexed.
StoredSymbols(names) ==
    {[name |-> nm, kind |-> IF nm[1] \in UPPER THEN "class" ELSE "function",
      line |-> 1, path |-> FilePath] : nm \in names}

StoredRefs(rs) == {[name |-> rs[k].name, line |-> rs[k].line] : k \in 1..Len(rs)}

IndexFile ==
    /\ r_pc = "done"
    /\ a_pc = "idle"
    /\ tbl_symbols' = StoredSymbols(defined_names)
    /\ tbl_refs' = StoredRefs(refs)
    /\ tbl_xml' = {}
    /\ tbl_sb' = {}
    /\ args' \in [module : {None}, export_only : {FALSE}, limit : {MaxLimit},
                  format : {"text", "json"}]
    /\ a_pc' = "start"
    /\ UNCHANGED <<symbols, a_i, unused, probe, stdout, a_result>>
    /\ UNCHANGED <<w_vars, s_vars, r_vars, k_vars, o_vars, p_vars, d_vars>>

-----------------------------------------------------------------------------
(* Claims about cmd_unused_symbols, checked under Spec. *)

Reported(sym) == sym \in SeqRange(unused)

NoRefRow(name) == \A r \in tbl_refs : r.name # name
NoXmlRow(name) == \A r \in tbl_xml : r.class_name # name
NoSbRow(name)  == \A r \in tbl_sb : r.class_name # name

\* C1 (as stated): every candidate the loop has examined is reported as
\* potentially unused if and only if no refs row has its name and no
\* xml_usages or storyboard_usages row has it as class_name.
C1_ReportedIffNoUsageRow ==
    probe # None =>
        (Reported(probe[1].sym) <=>
            /\ NoRefRow(probe[1].sym.name)
            /\ NoXmlRow(probe[1].sym.name)
            /\ NoSbRow(probe[1].sym.name))

\* C1 (amended): every candidate the loop has examined is reported if and
\* only if each of the three probes found nothing, where a probe finds
\* nothing when no row of its table matches the name or when the probe
\* itself failed with a store error (the failure is read as a count of 0).
C1_ReportedIffProbesFindNothing ==
    probe # None =>
        (Reported(probe[1].sym) <=>
            /\ (probe[1].ref = "err" \/ NoRefRow(probe[1].sym.name))
            /\ (probe[1].xml = "err" \/ NoXmlRow(probe[1].sym.name))
            /\ (probe[1].sb = "err" \/ NoSbRow(probe[1].sym.name)))

\* A candidate with no usage row anywhere was probed without any store
\* error and reported, and another candidate was examined and not reported.
C1_Witness ==
    /\ probe # None
    /\ probe[1].ref = "ok" /\ probe[1].xml = "ok" /\ probe[1].sb = "ok"
    /\ Reported(probe[1].sym)
    /\ NoRefRow(probe[1].sym.name)
    /\ a_i = 3
    /\ Len(unused) = 1

\* A probe of the last iteration failed with a store error.
ProbeFailed ==
    probe # None /\ "err" \in {probe[1].ref, probe[1].xml, probe[1].sb}

\* C30: after an iteration in which a probe failed, the command has not
\* failed; the probes after the failed one were run; the symbol is the last
\* one pushed if every probe that did not fail counted zero rows, and not
\* pushed otherwise; and the loop goes on with the next candidate unless
\* that was the last one or the push reached the limit.
C30_FailedProbeCountsAsZero ==
    ProbeFailed =>
        LET p    == probe[1]
            zero == /\ (p.ref = "err" \/ RefCount(p.sym.name) = 0)
                    /\ (p.xml = "err" \/ XmlCount(p.sym.name) = 0)
                    /\ (p.sb = "err" \/ SbCount(p.sym.name) = 0)
        IN  /\ a_result # "Err"
            /\ p.ref = "err" => p.xml # "skip"
            /\ p.xml = "err" => p.sb # "skip"
            /\ zero => unused # <<>> /\ unused[Len(unused)] = p.sym
            /\ ~zero => p.sym \notin SeqRange(unused)
            /\ symbols[a_i - 1] = p.sym
            /\ a_pc = "loop" => a_i <= Len(symbols)
            /\ a_pc \in {"loop", "output", "done"}
            /\ a_pc # "loop" =>
                  \/ a_i > Len(symbols)
                  \/ zero /\ LimitReached(Len(unused), args.limit)

\* The refs probe of the first of two candidates failed although a refs row
\* names it; it was reported, the second candidate was examined after it,
\* and the command returned Ok.
C30_Witness ==
    /\ a_pc = "done" /\ a_result = "Ok"
    /\ Len(symbols) = 2 /\ a_i = 3
    /\ Len(unused) >= 1
    /\ RefCount(unused[1].name) > 0
    /\ unused[1] = symbols[1]
    /\ probe # None /\ probe[1].sym = symbols[2]
    /\ probe[1].sb = "err"

\* C2 (as stated): for every limit N >= 0 at most N symbols are collected.
C2_AtMostLimit == Len(unused) <= args.limit

-----------------------------------------------------------------------------
(* Claims about cmd_watch, checked under SpecWatch. *)

SupportedExtensions ==
    {"kt", "java", "swift", "m", "h", "ts", "tsx", "js", "jsx", "mjs", "cjs",
     "vue", "svelte", "pm", "pl", "t", "proto", "wsdl", "xsd", "cpp", "cc",
     "c", "hpp", "py", "go", "rs", "rb", "cs", "dart"}
ExcludedDirNames ==
    { <<"build">>, <<"node_modules">>, <<"", "gradle">>, <<"", "git">>,
      <<"target">>, <<"", "idea">>, <<"__pycache__">>, <<"", "dart_tool">> }

\* An event of a supported source file outside every excluded directory.
Matching(path) ==
    /\ Extension(path) # None
    /\ Extension(path)[1] \in SupportedExtensions
    /\ \A k \in 1..Len(path) : path[k] \notin ExcludedDirNames

MatchingCount(events) ==
    Cardinality({k \in 1..Len(events) : Matching(events[k])})

\* C5: for each batch received, update_index is called exactly once if at
\* least one of its events has a supported extension and no excluded path
\* component, and not at all otherwise, however many events match.
C5_OneUpdatePerMatchingBatch ==
    (cur # None /\ cur[1].kind = "events") =>
        calls = (IF MatchingCount(cur[1].events) > 0 THEN 1 ELSE 0)

\* A batch with two matching events has been handled to the end with one
\* update, after a batch without any matching event caused none.
C5_Witness ==
    /\ cur # None /\ cur[1].kind = "events"
    /\ MatchingCount(cur[1].events) = 2
    /\ calls = 1
    /\ w_pc = "recv"
    /\ last_log \in {"updated", "no_changes"}

\* An event of a supported source file under the watched root and in no
\* excluded directory below the root.
MatchingBelowRoot(path) ==
    /\ Len(path) > Len(root)
    /\ SubSeq(path, 1, Len(root)) = root
    /\ Extension(path) # None
    /\ Extension(path)[1] \in SupportedExtensions
    /\ \A k \in (Len(root) + 1)..Len(path) : path[k] \notin ExcludedDirNames

\* C28: a batch that holds such an event passes the filter and causes an
\* incremental update, whatever the directories above the root are called.
C28_EventBelowRootTriggersUpdate ==
    ( /\ cur # None /\ cur[1].kind = "events"
      /\ \E k \in 1..Len(cur[1].events) : MatchingBelowRoot(cur[1].events[k]) )
    => calls = 1

\* C6: batches are handled one at a time in arrival order: the k-th message
\* received is the k-th sent, the watcher never holds two store connections,
\* and when the loop is back at rx.recv() the update it started has returned
\* and its connection is closed.
C6_SerialInArrivalOrder ==
    /\ conns <= 1
    /\ (w_pc \in {"recv", "done"} => conns = 0)
    /\ (cur # None => cur[1].id = taken)
    /\ \A k \in 1..Len(chan) : chan[k].id = taken + k

\* The update of the first batch is running on its connection while the
\* second batch waits in the channel.
C6_Witness ==
    /\ w_pc = "run" /\ conns = 1
    /\ taken = 1
    /\ Len(chan) = 1 /\ chan[1].kind = "events"

\* C7: after a watcher error or a failed update the loop is back at
\* rx.recv(), where a waiting message can still be received; the loop has
\* ended only if rx.recv() itself failed (the channel empty, its Sender gone).
C7_LoopSurvivesErrors ==
    /\ (last_log \in {"watch_error", "update_error_open", "update_error_run"}
           => w_pc = "recv")
    /\ ((hist.failed /\ w_pc = "recv" /\ chan # <<>>) => ENABLED WatchRecv)
    /\ ((w_pc = "done" /\ tx_state # "none")
           => /\ chan = <<>>
              /\ tx_state \in {"closed", "failed"}
              /\ last_log = "channel_error")

\* After a failed update of the first batch, the second batch was updated.
C7_Witness ==
    /\ hist.recovered
    /\ InLoop
    /\ taken = 2
    /\ last_log \in {"updated", "no_changes"}

\* C8 (as stated): once the loop has ended, cmd_watch returns Ok (status 0)
\* if the channel was closed cleanly and an error (non-zero status) if the
\* channel failed.
C8_ExitStatusTellsChannelError ==
    (w_pc = "done" /\ tx_state # "none") =>
        /\ (tx_state = "closed" => w_result = "Ok")
        /\ (tx_state = "failed" => w_result = "Err")

\* C9 (as stated): when db::open_db fails for the update a batch triggered,
\* the watch command terminates instead of waiting for further batches.
C9_OpenFailureTerminates ==
    last_log = "update_error_open" => w_pc = "done"

-----------------------------------------------------------------------------
(* Claims about the per-file upsert and the incremental update, checked     *)
(* under SpecStore.                                                         *)

Whole(row) == row = NoRow \/ \E c \in Contents : row = RowOf(c)

\* C3: the committed store never holds a mixture for a file: its file row,
\* symbols, parents and refs are all absent or all those of one content;
\* while a transaction is open the store is as it was when the upsert began;
\* an aborted upsert leaves the whole store as it was before it began, and a
\* committed one holds exactly the rows of the new content for its file and
\* leaves every other file's rows alone.
C3_ReindexIsAtomic ==
    /\ \A f \in Files : Whole(db[f])
    /\ (InTx => db = pre[1])
    /\ ((s_pc = "walk" /\ last_up # None /\ last_up[1].outcome = "aborted")
           => db = pre[1])
    /\ ((s_pc = "walk" /\ last_up # None /\ last_up[1].outcome = "committed")
           => /\ db[last_up[1].file] = RowOf(last_up[1].content)
              /\ \A g \in Files \ {last_up[1].file} : db[g] = pre[1][g])

\* An upsert of a file indexed before from another content was aborted after
\* its new symbols and parents had been written, and the store still holds
\* the previous indexing of the file.
C3_Witness ==
    /\ s_pc = "walk" /\ last_up # None
    /\ last_up[1].outcome = "aborted"
    /\ last_up[1].at = "tx_refs"
    /\ db[last_up[1].file].file # None
    /\ db[last_up[1].file] # RowOf(last_up[1].content)
    /\ db[last_up[1].file].symbols # ExtractSymbols(last_up[1].content)

\* C4: an incremental update of a fully indexed tree that nobody edits
\* returns (0, 0, 0) (update_index: Ok((0, 0))) and has modified no row;
\* an upsert that finds the stored hash equal to the content's hash opens no
\* transaction and leaves the store as it was.
C4_UnchangedTreeIsNoOp ==
    /\ ((s_pc = "idle" /\ s_ret # None /\ pass.clean /\ ~pass.edited)
           => (s_ret[1].ok => /\ s_ret[1].incremental = <<0, 0, 0>>
                              /\ s_ret[1].update_index = <<0, 0>>
                              /\ ~pass.touched))
    /\ ((last_up # None /\ last_up[1].outcome = "unchanged" /\ s_pc = "walk")
           => /\ db = pre[1]
              /\ tx = None)

\* An update of a tree whose two files are both indexed and unchanged has
\* returned (0, 0, 0).
C4_Witness ==
    /\ s_pc = "idle" /\ s_ret # None /\ s_ret[1].ok
    /\ pass.clean /\ ~pass.edited
    /\ \A f \in Files : db[f] # NoRow
    /\ s_ret[1].incremental = <<0, 0, 0>>

\* C15: with a module prefix the candidates are exactly the symbols of a
\* candidate kind whose file path starts with the prefix, character for
\* character.
C15_CandidatesStartWithPrefix ==
    (a_pc \in {"loop", "output"} /\ args.module # None) =>
        SeqRange(symbols)
            = {r \in tbl_symbols :
                  r.kind \in CandidateKinds /\ StartsWith(r.path, args.module[1])}

\* (file path, line) order: paths compared byte by byte, then lines.
PathLineBefore(c, d) ==
    \/ BytesLess(c.path, d.path)
    \/ c.path = d.path /\ c.line < d.line

\* C16: the reported symbols stand in ascending (file path, line) order, and
\* no candidate without any usage row that precedes a reported symbol in
\* that order is left out.
C16_ReportedInOrderNoneSkipped ==
    /\ \A i, j \in 1..Len(unused) :
          i < j => ~PathLineBefore(unused[j], unused[i])
    /\ \A k \in 1..Len(unused) : \A c \in tbl_symbols :
          ( /\ Selected(c, args.module, args.export_only)
            /\ PathLineBefore(c, unused[k])
            /\ NoRefRow(c.name) /\ NoXmlRow(c.name) /\ NoSbRow(c.name) )
          => Reported(c)

\* Two symbols reported, the first from the lesser path although its line
\* number is the greater.
C16_Witness ==
    /\ a_pc = "done"
    /\ Len(unused) = 2
    /\ BytesLess(unused[1].path, unused[2].path)
    /\ unused[1].line > unused[2].line

\* C17: with format json everything written to stdout is JSON payload.
C17_JsonStdoutOnlyPayload ==
    args.format = "json" =>
        \A k \in 1..Len(stdout) : stdout[k].kind = "json"

-----------------------------------------------------------------------------
(* Claims about extract_references, checked under SpecRefs. *)

RefNames == {refs[k].name : k \in 1..Len(refs)}

\* C10: no reference emitted has a name of the keyword / common-type
\* denylist or the name of a symbol defined in the same file, whether or not
\* a denylisted name is also the name of a defined symbol.
C10_NoDeniedOrLocalRef ==
    \A k \in 1..Len(refs) :
        /\ refs[k].name \notin KEYWORDS
        /\ refs[k].name \notin defined_names

\* The file defines its own Result and uses Result and Foo on one scanned
\* line: Foo is the only reference.
C10_Witness ==
    /\ r_pc = "done"
    /\ <<"R","e","s","u","l","t">> \in defined_names
    /\ \E n \in 1..Len(Lines(content)) :
          /\ ~SkipLine(Trim(Lines(content)[n]))
          /\ <<"R","e","s","u","l","t">>
                \in SeqRange(IdentifierCaptures(Lines(content)[n], 1))
          /\ <<"F","o","o">> \in SeqRange(IdentifierCaptures(Lines(content)[n], 1))
    /\ RefNames = {<<"F","o","o">>}

\* The positions of the line at which the name stands as a whole run of
\* letters and digits.
Occurrences(name, line) ==
    {p \in 1..Len(line) :
        /\ p + Len(name) - 1 <= Len(line)
        /\ SubSeq(line, p, p + Len(name) - 1) = name
        /\ RunEnd(line, p) = p + Len(name) - 1}

CallRefs == {k \in 1..Len(refs) : refs[k].name[1] \in LOWER}

\* C14 as stated: a reference with a lowercase-initial name is longer than 2
\* and stands in its line immediately before a "(".
C14_CallOnlyImmediatelyBeforeParen ==
    \A k \in CallRefs :
        /\ Len(refs[k].name) > 2
        /\ \E p \in Occurrences(refs[k].name, Lines(content)[refs[k].line]) :
              /\ p + Len(refs[k].name) <= Len(Lines(content)[refs[k].line])
              /\ Lines(content)[refs[k].line][p + Len(refs[k].name)] = "("

\* C14, amended: a reference with a lowercase-initial name is longer than 2
\* and stands in its line before a "(", with nothing but white space in
\* between.
C14_CallOnlyBeforeParenAfterSpace ==
    \A k \in CallRefs :
        LET line == Lines(content)[refs[k].line]
        IN  /\ Len(refs[k].name) > 2
            /\ \E p \in Occurrences(refs[k].name, line) :
                  /\ SkipSpace(line, p + Len(refs[k].name)) <= Len(line)
                  /\ line[SkipSpace(line, p + Len(refs[k].name))] = "("

\* The line "foo (" has been scanned and foo is a reference.
C14_Witness ==
    /\ r_pc = "done"
    /\ content = <<"f", "o", "o", " ", "(">>
    /\ RefNames = {<<"f", "o", "o">>}

-----------------------------------------------------------------------------
(* Claims about extract_references on long lines, checked under SpecLong. *)

\* The trimmed source line a reference was taken from.
TrimmedLineOf(r) == Trim(Lines(content)[r.line])

IsPrefix(p, t) == Len(p) <= Len(t) /\ SubSeq(t, 1, Len(p)) = p

EndsWithEllipsis(c) ==
    Len(c) >= Len(Ellipsis) /\ SubSeq(c, Len(c) - 2, Len(c)) = Ellipsis

\* C11: every emitted context has length at most 500 and is a prefix of the
\* trimmed source line, possibly followed by "...".
C11_ContextAtMost500 ==
    \A k \in 1..Len(refs) :
        /\ Len(refs[k].context) <= MAX_CONTEXT_LEN
        /\ \/ IsPrefix(refs[k].context, TrimmedLineOf(refs[k]))
           \/ /\ EndsWithEllipsis(refs[k].context)
              /\ IsPrefix(SubSeq(refs[k].context, 1, Len(refs[k].context) - 3),
                          TrimmedLineOf(refs[k]))

\* C12: for a trimmed line of more than 500 bytes the context is the line
\* cut at a character boundary, the first one at or after byte 500, followed
\* by "..."; the cut never fails.
C12_CutOnCharBoundary ==
    \A k \in 1..Len(refs) :
        LET t == TrimmedLineOf(refs[k])
            c == refs[k].context
        IN  ByteLen(t) > MAX_CONTEXT_LEN =>
              /\ c # Panic
              /\ EndsWithEllipsis(c)
              /\ c = SubSeq(t, 1, Len(c) - 3) \o Ellipsis
              /\ PrefixBytes(t, Len(c) - 3) >= MAX_CONTEXT_LEN
              /\ PrefixBytes(t, Len(c) - 3) <= MAX_CONTEXT_LEN + 3

\* A reference from a line in which byte 500 is inside a two-byte character:
\* the cut is made after that character, at byte 501.
C12_Witness ==
    /\ r_pc = "done"
    /\ \E k \in 1..Len(refs) :
          LET t == TrimmedLineOf(refs[k])
          IN  /\ ByteLen(t) > MAX_CONTEXT_LEN
              /\ ~is_char_boundary(t, MAX_CONTEXT_LEN)
              /\ is_char_boundary(t, MAX_CONTEXT_LEN + 1)
              /\ refs[k].context
                    = SubSeq(t, 1, CharsWithin(t, MAX_CONTEXT_LEN + 1)) \o Ellipsis

RefLines == {refs[k].line : k \in 1..Len(refs)}

\* C13 as stated: a line of more than 2000 characters yields no reference
\* with its line number.
C13_NoRefFromLongLine ==
    \A n \in 1..Len(Lines(content)) :
        Len(Lines(content)[n]) > LONG_LINE => n \notin RefLines

\* C13, amended: a line that is more than 2000 bytes long once its
\* surrounding white space is trimmed yields no reference with its line
\* number.
C13_NoRefFromLongTrimmedLine ==
    \A n \in 1..Len(Lines(content)) :
        ByteLen(Trim(Lines(content)[n])) > LONG_LINE => n \notin RefLines

\* A first line of more than 2000 bytes that holds an identifier, passed
\* over, and the second line's reference emitted.
C13_Witness ==
    /\ r_pc = "done"
    /\ Len(Lines(content)) = 2
    /\ ByteLen(Trim(Lines(content)[1])) > LONG_LINE
    /\ IdentifierCaptures(Lines(content)[1], 1) # <<>>
    /\ RefLines = {2}

-----------------------------------------------------------------------------
(* Claims about parse_kotlin_symbols, checked under SpecKotlin. *)

\* The parent list as the declaration writes it: `Name()` extends, bare
\* `Name` implements.
Written(d) ==
    [j \in 1..Len(d.parents) |->
        <<d.parents[j].name, IF d.parents[j].call THEN "extends" ELSE "implements">>]

\* The symbols pushed for the declaration itself.
DeclSymbols ==
    {j \in 1..Len(k_symbols) :
        k_symbols[j].line = 1 /\ k_symbols[j].kind \in {"Class", "Object"}}

\* C18: a class or object declaration with a parent list, with or without
\* a primary constructor, has each `Name()` recorded as extends and each bare
\* `Name` as implements.
C18_ParentKinds ==
    \A j \in DeclSymbols :
        ( /\ k_decl[1].parents # <<>>
          /\ Len(HeaderLines(k_decl[1])) <= HEADER_LINES
          /\ k_decl[1].body # "none" )
        => k_symbols[j].parents = Written(k_decl[1])

\* C19: a class header of up to 20 lines yields exactly the parent list it
\* writes; a longer one is read for 20 lines and the parser still returns.
C19_HeaderUpTo20Lines ==
    /\ \A j \in DeclSymbols :
          Len(HeaderLines(k_decl[1])) <= HEADER_LINES
          => k_symbols[j].parents = Written(k_decl[1])
    /\ (k_decl # None /\ k_pc = "loop" /\ k_n > Len(k_lines))
          => ENABLED KotlinReturn

\* The symbols named A, in the order of the output.
NamedA == SelectSeq(k_symbols, LAMBDA sym : sym.name = <<"A">>)

\* C20: once the line `enum class A` is read, the output holds a symbol A of
\* kind Class and after it a symbol A of kind Enum, both of that line, and
\* the first symbol named A is the Class one.
C20_EnumClassYieldsClassThenEnum ==
    (k_decl # None /\ k_decl[1].enum /\ k_n > 1) =>
        /\ Len(NamedA) >= 2
        /\ NamedA[1].kind = "Class" /\ NamedA[1].line = 1
        /\ NamedA[2].kind = "Enum" /\ NamedA[2].line = 1

\* `enum class A : B {` parsed to the end: Class A, then Enum A.
C20_Witness ==
    /\ k_pc = "done"
    /\ k_decl[1].enum
    /\ k_decl[1].ctor = "none" /\ Len(k_decl[1].parents) = 1
    /\ Len(k_symbols) = 2
    /\ k_symbols[1].name = <<"A">> /\ k_symbols[1].kind = "Class"
    /\ k_symbols[2].name = <<"A">> /\ k_symbols[2].kind = "Enum"

\* C26: a class written without an inheritance clause and without a body,
\* followed by other declarations, has an empty parent list.
C26_NoClauseNoBodyHasNoParents ==
    \A j \in DeclSymbols :
        (k_decl[1].parents = <<>> /\ k_decl[1].body = "none" /\ k_pc = "done")
        => k_symbols[j].parents = <<>>

BareName(name) ==
    \A i \in 1..Len(name) :
        name[i] \notin {"(", ")", ",", "<", ">", " ", "\t", "\r", "\n"}

\* C27: every parent name recorded is a bare type name, without parenthesis,
\* comma, angle bracket or white space.
C27_ParentNamesAreBare ==
    \A j \in 1..Len(k_symbols) :
        \A q \in 1..Len(k_symbols[j].parents) :
            BareName(k_symbols[j].parents[q][1])

-----------------------------------------------------------------------------
(* Claims about parse_objc_symbols, checked under SpecObjc. *)

\* The symbols pushed for line n, in order.
ObjcSymbolsOfLine(n) == SelectSeq(o_symbols, LAMBDA sym : sym.line = n)

\* A category line as the language writes it: `@interface Name`, any white
\* space, and a parenthesis.  The value is None or Some(Name).
CategoryName(line) ==
    LET m == captures(Cat(<<Bol, Star(Sp), Str(<<"@","i","n","t","e","r","f","a","c","e">>), Plus(Sp),
                            Grp(1, Word), Star(Sp), Str(<<"(">>)>>), line)
    IN  IF m = None THEN None ELSE CapGet(m[1], 1, line)

\* C21: every category line `@interface Name (Tag)` the loop has handled
\* yields exactly one symbol, Name+Category of kind Object with the single
\* parent (Name, extends), and so no Class symbol named Name.
C21_CategoryLineYieldsOneCategorySymbol ==
    \A n \in 1..(o_n - 1) :
        LET line == Lines(o_content)[n]
            name == CategoryName(line)
        IN  name # None =>
              /\ Len(ObjcSymbolsOfLine(n)) = 1
              /\ ObjcSymbolsOfLine(n)[1].name = name[1] \o <<"+","C","a","t","e","g","o","r","y">>
              /\ ObjcSymbolsOfLine(n)[1].kind = "Object"
              /\ ObjcSymbolsOfLine(n)[1].parents = <<<<name[1], "extends">>>>

\* The name of an `@implementation Name` line, None for any other line.
ImplementationName(line) ==
    LET m == captures(Cat(<<Bol, Star(Sp), Str(<<"@","i","m","p","l","e","m","e","n","t","a","t","i","o","n">>), Plus(Sp),
                            Grp(1, Word)>>), line)
    IN  IF m = None THEN None ELSE CapGet(m[1], 1, line)

\* The name of a class `@interface Name` line (not a category), else None.
ClassInterfaceName(line) ==
    LET m == captures(Cat(<<Bol, Star(Sp), Str(<<"@","i","n","t","e","r","f","a","c","e">>), Plus(Sp),
                            Grp(1, Word)>>), line)
    IN  IF m = None \/ CategoryName(line) # None THEN None
        ELSE CapGet(m[1], 1, line)

\* The Class symbols named `name` pushed for the lines in ns.
ClassesNamed(name, ns) ==
    SelectSeq(o_symbols, LAMBDA sym :
                  sym.name = name /\ sym.kind = "Class" /\ sym.line \in ns)

\* C22: an `@implementation Name` line yields a Class symbol exactly when no
\* Class symbol named Name came from an earlier line; so a file of the two
\* lines `@interface Name`, `@implementation Name` ends with one Class named
\* Name, and with two when the lines are in the other order.
C22_ImplementationClassIffNoEarlierClass ==
    /\ \A n \in 1..(o_n - 1) :
         LET name == ImplementationName(Lines(o_content)[n])
         IN  name # None =>
               (ClassesNamed(name[1], {n}) # <<>>
                  <=> ClassesNamed(name[1], 1..(n - 1)) = <<>>)
    /\ o_pc = "done" /\ Len(Lines(o_content)) = 2 =>
         LET l1 == Lines(o_content)[1]
             l2 == Lines(o_content)[2]
         IN  /\ ClassInterfaceName(l1) # None
                  /\ ImplementationName(l2) = ClassInterfaceName(l1)
                  => Len(ClassesNamed(ClassInterfaceName(l1)[1], {1, 2})) = 1
             /\ ImplementationName(l1) # None
                  /\ ClassInterfaceName(l2) = ImplementationName(l1)
                  => Len(ClassesNamed(ImplementationName(l1)[1], {1, 2})) = 2

\* The implementation after its interface was handled and pushed nothing.
C22_Witness ==
    /\ o_pc = "done"
    /\ o_content = <<"@","i","n","t","e","r","f","a","c","e"," ","A"," ",":"," ","S"," ","<","P",","," ","Q",">">> \o <<"\n">>
                   \o <<"@","i","m","p","l","e","m","e","n","t","a","t","i","o","n"," ","A">> \o <<"\n">>
    /\ Len(o_symbols) = 1
    /\ o_symbols[1].kind = "Class" /\ o_symbols[1].line = 1

-----------------------------------------------------------------------------
(* Claims about parse_perl_symbols, checked under SpecPerl. *)

PerlLineAt(n) == Lines(p_content)[n]

IsPackageLine(n) == captures(PACKAGE_RE, PerlLineAt(n)) # None

\* Where the list of a matched inheritance statement starts in its line.
ListStart(m) == IF m.caps[1] # None THEN m.caps[1][1][1] ELSE m.caps[2][1][1]

\* The inheritance entries a line names, in the order the line writes them.
EntriesInLineOrder(line) ==
    LET ub  == captures(USE_BASE_RE, line)
        isa == captures(ISA_RE, line)
    IN  IF ub # None /\ isa # None /\ ListStart(isa[1]) < ListStart(ub[1])
        THEN IsaEntries(line) \o UseBaseEntries(line)
        ELSE UseBaseEntries(line) \o IsaEntries(line)

\* The entries of the lines from..to that are no package lines, in document
\* order.
RECURSIVE EntriesOfLines(_, _)
EntriesOfLines(from, to) ==
    IF from > to THEN <<>>
    ELSE (IF IsPackageLine(from) THEN <<>>
          ELSE EntriesInLineOrder(PerlLineAt(from)))
         \o EntriesOfLines(from + 1, to)

PackageLineNums == {n \in 1..(p_n - 1) : IsPackageLine(n)}

\* The entries that belong to the package declared on line n, of the lines
\* handled so far: those between it and the next package line, and for the
\* first package also those before it.
EntriesOfPackage(n) ==
    LET later == {k \in PackageLineNums : k > n}
        last  == IF later = {} THEN p_n - 1
                 ELSE (CHOOSE k \in later : \A q \in later : k <= q) - 1
    IN  (IF \A k \in PackageLineNums : n <= k
         THEN EntriesOfLines(1, n - 1) ELSE <<>>)
        \o EntriesOfLines(n + 1, last)

\* C23: each Package symbol holds, in document order and with kind extends,
\* exactly the inheritance entries written between its package line and the
\* next one (the first package also those written before it), and no other
\* symbol holds an entry.
C23_EntriesAttachedInDocumentOrder ==
    \A j \in 1..Len(p_symbols) :
        IF p_symbols[j].kind = "Package"
        THEN p_symbols[j].parents = EntriesOfPackage(p_symbols[j].line)
        ELSE p_symbols[j].parents = <<>>

\* C29: only Package symbols carry parents; the index of current_package
\* designates the Package symbol pushed last; and when the content has no
\* package line, no symbol returned records an inheritance entry.
C29_ParentsOnlyOnCurrentPackage ==
    /\ \A j \in 1..Len(p_symbols) :
         p_symbols[j].kind # "Package" => p_symbols[j].parents = <<>>
    /\ (current_package = None)
         = (\A j \in 1..Len(p_symbols) : p_symbols[j].kind # "Package")
    /\ current_package # None =>
         LET idx == current_package[1][2] + 1
         IN  /\ idx \in 1..Len(p_symbols)
             /\ p_symbols[idx].kind = "Package"
             /\ p_symbols[idx].name = current_package[1][1]
             /\ \A j \in (idx + 1)..Len(p_symbols) :
                  p_symbols[j].kind # "Package"
    /\ p_pc = "done" /\ (\A n \in 1..Len(Lines(p_content)) : ~IsPackageLine(n))
         => /\ \A j \in 1..Len(p_symbols) : p_symbols[j].parents = <<>>
            /\ pending_parents = <<>>

\* A file without a package line that names parents and declares a
\* variable: the variable is returned, the parents are not.
C29_Witness ==
    /\ p_pc = "done"
    /\ p_content = <<"u","s","e"," ","b","a","s","e"," ","q","w","/","P"," ","Q","/",";">> \o <<"\n">> \o <<"o","u","r"," ","$","V"," ","="," ","1",";">> \o <<"\n">>
    /\ Len(p_symbols) = 1
    /\ p_symbols[1].kind = "Property"
    /\ p_symbols[1].parents = <<>>

-----------------------------------------------------------------------------
(* Claims about parse_symbols_and_refs, checked under SpecDispatch. *)

\* The symbol extractor of each dialect.
ExtractorOf ==
    [is_swift  |-> "parse_swift_symbols",  is_objc   |-> "parse_objc_symbols",
     is_perl   |-> "parse_perl_symbols",   is_proto  |-> "parse_proto_symbols",
     is_wsdl   |-> "parse_wsdl_symbols",   is_cpp    |-> "parse_cpp_symbols",
     is_python |-> "parse_python_symbols", is_go     |-> "parse_go_symbols",
     is_rust   |-> "parse_rust_symbols",   is_ruby   |-> "parse_ruby_symbols",
     is_csharp |-> "parse_csharp_symbols", is_dart   |-> "parse_dart_symbols",
     is_typescript |-> "parse_typescript_symbols",
     is_vue    |-> "parse_typescript_symbols",
     is_svelte |-> "parse_typescript_symbols"]

Extractors == {ExtractorOf[f] : f \in SeqRange(Flags)} \cup {"parse_kotlin_symbols"}

ExtractorsCalled == SelectSeq(d_called, LAMBDA fn : fn \in Extractors)

\* The extractor the flags ask for: that of the first set flag, Kotlin's when
\* none is set.
Expected(f) ==
    IF \A k \in 1..Len(Flags) : ~f[Flags[k]] THEN "parse_kotlin_symbols"
    ELSE ExtractorOf[Flags[CHOOSE k \in 1..Len(Flags) :
                               f[Flags[k]] /\ \A q \in 1..(k - 1) : ~f[Flags[q]]]]

\* C24: once the call is past its first statement it has invoked exactly one
\* symbol extractor, the one of the first set flag in the fixed order, and
\* the Kotlin one when no flag is set.
C24_OneExtractorOfFirstSetFlag ==
    d_pc \in {"refs", "done"} => ExtractorsCalled = <<Expected(d_flags)>>

\* Two flags set: the earlier one in the order decides.
C24_Witness ==
    /\ d_pc = "done" /\ d_result = "Ok"
    /\ d_flags.is_perl /\ d_flags.is_typescript
    /\ d_called = <<"parse_perl_symbols", "extract_references">>

\* No flag set: the Kotlin extractor runs.
C24_WitnessFallback ==
    /\ d_pc = "done" /\ d_result = "Ok"
    /\ \A k \in 1..Len(Flags) : ~d_flags[Flags[k]]
    /\ d_called = <<"parse_kotlin_symbols", "extract_references">>

-----------------------------------------------------------------------------
(* Claims about indexing followed by cmd_unused_symbols, checked under
   SpecIndex. *)

\* The name stands as a whole identifier in a line of the content that is
\* neither a comment nor an import.
UsedInFile(name) ==
    \E n \in 1..Len(Lines(content)) :
        /\ ~SkipLine(Trim(Lines(content)[n]))
        /\ Occurrences(name, Lines(content)[n]) # {}

ReportedNames == {unused[k].name : k \in 1..Len(unused)}

\* C25: a symbol of the file whose name is used in the file is not among
\* the symbols the query reports.
C25_UsedInOwnFileNotReported ==
    \A name \in defined_names : UsedInFile(name) => name \notin ReportedNames

-----------------------------------------------------------------------------

Init == UnusedInit /\ WatchIdle /\ StoreIdle /\ RefsIdle /\ KotlinIdle /\ ObjcIdle /\ PerlIdle
    /\ DispatchIdle
Next == cmd_unused_symbols
Spec == Init /\ [][Next]_vars

InitWatch == WatchInit /\ UnusedIdle /\ StoreIdle /\ RefsIdle /\ KotlinIdle /\ ObjcIdle /\ PerlIdle
    /\ DispatchIdle
NextWatch == cmd_watch \/ Debouncer
SpecWatch == InitWatch /\ [][NextWatch]_vars

InitStore == StoreInit /\ UnusedIdle /\ WatchIdle /\ RefsIdle /\ KotlinIdle /\ ObjcIdle /\ PerlIdle
    /\ DispatchIdle
NextStore == update_index \/ Edit
SpecStore == InitStore /\ [][NextStore]_vars

InitRefs == RefsInit /\ UnusedIdle /\ WatchIdle /\ StoreIdle /\ KotlinIdle /\ ObjcIdle /\ PerlIdle
    /\ DispatchIdle
NextRefs == extract_references
SpecRefs == InitRefs /\ [][NextRefs]_vars

InitLong == RefsInitLong /\ UnusedIdle /\ WatchIdle /\ StoreIdle /\ KotlinIdle /\ ObjcIdle /\ PerlIdle
    /\ DispatchIdle
SpecLong == InitLong /\ [][NextRefs]_vars

InitKotlin == KotlinInit /\ UnusedIdle /\ WatchIdle /\ StoreIdle /\ RefsIdle /\ ObjcIdle /\ PerlIdle
    /\ DispatchIdle
NextKotlin == parse_kotlin_symbols
SpecKotlin == InitKotlin /\ [][NextKotlin]_vars

InitObjc == ObjcInit /\ UnusedIdle /\ WatchIdle /\ StoreIdle /\ RefsIdle /\ KotlinIdle
    /\ PerlIdle /\ DispatchIdle
NextObjc == parse_objc_symbols
SpecObjc == InitObjc /\ [][NextObjc]_vars

InitPerl == PerlInit /\ UnusedIdle /\ WatchIdle /\ StoreIdle /\ RefsIdle /\ KotlinIdle
    /\ ObjcIdle /\ DispatchIdle
NextPerl == parse_perl_symbols
SpecPerl == InitPerl /\ [][NextPerl]_vars

InitDispatch == DispatchInit /\ UnusedIdle /\ WatchIdle /\ StoreIdle /\ RefsIdle
    /\ KotlinIdle /\ ObjcIdle /\ PerlIdle
NextDispatch == parse_symbols_and_refs
SpecDispatch == InitDispatch /\ [][NextDispatch]_vars

InitIndex == RefsInit /\ UnusedIdle /\ WatchIdle /\ StoreIdle /\ KotlinIdle /\ ObjcIdle
    /\ PerlIdle /\ DispatchIdle
NextIndex == extract_references \/ IndexFile \/ cmd_unused_symbols
SpecIndex == InitIndex /\ [][NextIndex]_vars

====
